---- MODULE Spec2Model ----
(***************************************************************************)
(* Model of the MCP protocol server of 03-mcp/mcp-dev-workflow:            *)
(*   mcp_server/core/protocol.py   envelopes and error codes               *)
(*   mcp_server/core/server.py     MCPServer: dispatch and message loop    *)
(*   mcp_server/tools/base.py      Tool and ToolsManager                   *)
(*   mcp_server/tools/echo.py      EchoTool                                *)
(*   mcp_server/transport/base.py  Transport interface                     *)
(*   mcp_server/transport/http.py  HTTPTransport                           *)
(*   mcp_server/transport/stdio.py StdioTransport                          *)
(*   mcp_server/tools/context7.py  RateLimiter, Context7Client             *)
(*                                                                         *)
(* Spec          the server and its registry over the abstract Transport   *)
(* HttpSpec      the server over the HTTP transport with concurrent POSTs  *)
(* LimiterSpec   one RateLimiter and concurrent acquire calls              *)
(* RequestSpec   one Context7Client._make_request and its retries          *)
(* StdioSpec     the server over the stdio transport                       *)
(* StdioLiveSpec StdioSpec with the loop task scheduled fairly             *)
(* HttpLiveSpec  HttpSpec with the loop task scheduled fairly              *)
(* CodecSpec     to_dict and from_dict of one request or response          *)
(* RegistrySpec  one ToolsManager and direct calls of its methods           *)
(* TransportSpec one transport and direct calls of its methods             *)
(* ValidateSpec  Tool._validate_arguments on one dict and one schema        *)
(* RestartSpec   one MCPServer, start and stop called in any order         *)
(***************************************************************************)
EXTENDS Integers, Sequences, FiniteSets, TLC

\* ------------------------------------------------------------------ bounds
\* integer identifiers range over 1..MaxId, string identifiers over their
\* decimal texts
MaxId == 2
\* number of start calls on one server in RestartSpec
MaxStarts == 3
\* number of HTTP calls (POST /jsonrpc) of one run of HttpSpec
MaxCalls == 2

\* ------------------------------------------------- protocol.py: error codes
PARSE_ERROR == -32700
INVALID_REQUEST == -32600
METHOD_NOT_FOUND == -32601
INVALID_PARAMS == -32602
INTERNAL_ERROR == -32603

\* ------------------------------------------------- identifiers (str | int)
\* An identifier is absent (None), an integer n or a string; v is the number
\* whose decimal text the identifier shows, so the integer 1 and the string
\* "1" are different identifiers with the same text.
NoId == [t |-> "none", v |-> 0]
IntIds == {[t |-> "int", v |-> n] : n \in 1..MaxId}
StrIds == {[t |-> "str", v |-> n] : n \in 1..MaxId}
Ids == IntIds \cup StrIds

\* str(request.id): the decimal text, whatever the type of the identifier
IdStr(id) == id.v

\* ------------------------------------------------------ tools (base.py)
\* Tool instances: two EchoTool objects (same name "echo") and one instance
\* of another Tool subclass whose execute is left abstract.
ToolObjs == {"echo1", "echo2", "test1"}

ToolName(t) == IF t \in {"echo1", "echo2"} THEN "echo" ELSE "test_tool"

ToolClass(t) == IF t \in {"echo1", "echo2"} THEN "EchoTool" ELSE "Tool"

\* EchoTool.get_schema().input_schema
EchoSchema ==
    [required |-> <<"message">>,
     properties |-> {"message"},
     additionalProperties |-> FALSE]

\* arguments of tools/call: absent, null, or a dict given by its key set
ArgKeys == {"message", "extra"}
Arguments ==
    {[kind |-> "absent", keys |-> {}], [kind |-> "null", keys |-> {}]}
    \cup {[kind |-> "dict", keys |-> k] : k \in SUBSET ArgKeys}

RECURSIVE FirstMissing(_, _)
\* the first required field that is not among the keys, "" when none
FirstMissing(required, keys) ==
    IF required = <<>> THEN ""
    ELSE IF Head(required) \notin keys THEN Head(required)
    ELSE FirstMissing(Tail(required), keys)

\* _validate_arguments with the two checks in the other order
ValidateArguments_UnexpectedFirst(keys, schema) ==
    IF ~schema.additionalProperties /\ keys \ schema.properties # {}
    THEN <<"Unexpected arguments: ">>
    ELSE IF FirstMissing(schema.required, keys) # ""
    THEN <<"Missing required argument: ", FirstMissing(schema.required, keys)>>
    ELSE <<"ok">>

\* Tool._validate_arguments: "ok", or the ValueError it raises
ValidateArguments(keys, schema) ==
    IF FirstMissing(schema.required, keys) # ""
    THEN <<"Missing required argument: ", FirstMissing(schema.required, keys)>>
    ELSE IF ~schema.additionalProperties /\ keys \ schema.properties # {}
    THEN <<"Unexpected arguments: ">>
    ELSE <<"ok">>

\* ------------------------------------------------------ results, responses
NoResult == [kind |-> "none", tools |-> <<>>, content |-> <<>>, is_error |-> FALSE]
NoError == [code |-> 0, message |-> <<>>]

\* ToolResult(content=[Content(type="text", text=text)], is_error=is_error)
TextResult(text, isError) ==
    [kind |-> "tool", tools |-> <<>>, content |-> <<text>>, is_error |-> isError]

\* JSONRPCResponse.success
Success(result, id) == [id |-> id, result |-> result, error |-> NoError]

\* JSONRPCResponse.create_error
CreateError(code, message, id) ==
    [id |-> id, result |-> NoResult, error |-> [code |-> code, message |-> message]]

\* ------------------------------------------------------ request envelopes
\* params of a request: absent, or a dict of which the model keeps whether it
\* holds well-typed protocolVersion, capabilities and clientInfo (init), the
\* protocolVersion it then declares, its "name" entry and its "arguments"
\* entry
NoName == "<absent>"
ToolNames == {"echo", "test_tool", "nonexistent"}
NoArguments == [kind |-> "absent", keys |-> {}]

\* protocolVersion of well-typed initialize parameters: the server's own
\* version or another string
NoVersion == "<absent>"
Versions == {"2024-11-05", "1.0"}
NoParams ==
    [present |-> FALSE, init |-> FALSE, version |-> NoVersion, name |-> NoName,
     arguments |-> NoArguments]
Params ==
    {NoParams}
    \cup {[present |-> TRUE, init |-> FALSE, version |-> NoVersion, name |-> NoName,
            arguments |-> NoArguments]}
    \cup {[present |-> TRUE, init |-> TRUE, version |-> v, name |-> NoName,
            arguments |-> NoArguments] : v \in Versions}
    \cup {[present |-> TRUE, init |-> FALSE, version |-> NoVersion, name |-> n,
            arguments |-> NoArguments] :
              n \in ToolNames \cup {""}}
    \cup {[present |-> TRUE, init |-> FALSE, version |-> NoVersion, name |-> "echo",
            arguments |-> a] :
              a \in Arguments}

Methods ==
    {"initialize", "tools/list", "tools/call", "notifications/initialized",
     "unknown_method"}

\* JSONRPCRequest
Envelopes ==
    [jsonrpc : {"2.0", "1.0"}, method : Methods, params : Params,
     id : Ids \cup {NoId}]

\* ------------------------------------------------------------------ state
VARIABLES
    initialized,   \* MCPServer.initialized
    tools,         \* ToolsManager.tools: the dict as its insertion-ordered
                   \* sequence of [name, tool] items
    regError,      \* what the last registry operation raised ("" if nothing)
    running,       \* MCPServer._running
    pc,            \* position of the message loop task
    cur,           \* request returned by receive_message (<<>> is None)
    resp,          \* value returned by handle_request (<<>> is None)
    execTool,      \* the tool whose execute is awaited (<<>> if none)
    execArgs,      \* the arguments it was called with
    executed,      \* tools whose execute was invoked for the current request
    handed,        \* responses handed to transport.send_message for it
    wasInit,       \* self.initialized when handle_request took the request
    toolOut,       \* what the awaited execute gave (<<>> if not awaited)
    curCall,       \* the HTTP call that posted cur (0 if none)
    httpRunning,   \* HTTPTransport._running
    serving,       \* the uvicorn server task is serving requests
    queue,         \* HTTPTransport._request_queue, with the posting call
    futures,       \* HTTPTransport._response_futures: key text -> the call
                   \* whose Future is stored under it (0 if the key is absent)
    futState,      \* per call, the state of the Future it created
    futResult,     \* per call, the result set on its Future (<<>> if none)
    callPc,        \* per call, the position of handle_jsonrpc
    callReq,       \* per call, the request it posted (<<>> before the POST)
    callOut,       \* per call, what handle_jsonrpc returned
    clock,         \* datetime.now(), in whole time units
    requests,      \* RateLimiter.requests
    acqPc,         \* per caller, the position of its acquire
    acqNow,        \* per caller, the local now of its acquire
    acqWake,       \* per caller, the time its asyncio.sleep ends
    acqSeen,       \* per caller, what acquire met: admissions in the window
                   \* ending at now, timestamps kept, and the wait it chose
    admitAt,       \* per caller, the time its acquire returned (-1 before)
    reqPc,         \* position of _make_request
    attempt,       \* the loop variable of _make_request
    outcomes,      \* what client.request gave on each attempt so far
    delays,        \* the arguments of the asyncio.sleep calls so far
    reqResult,     \* how _make_request ended ("" while it has not)
    stdioRunning,  \* StdioTransport._running
    stdinReader,   \* StdioTransport._stdin_reader is not None
    eof,           \* the input stream has ended
    lineNo,        \* number of lines read from the input so far
    curLine,       \* number of the line that gave cur
    lastRead,      \* what the last readline returned
    stdout,         \* what was written to the output, with the line answered
    codecPc,       \* position of the codec run
    reqObj,        \* a JSONRPCRequest
    reqWire,       \* the dict of a request as json.loads / to_dict give it
    reqBack,       \* the JSONRPCRequest decoded from an encoded one
    wireBack,      \* the dict encoded from a decoded one
    respObj,       \* a JSONRPCResponse
    respWire,      \* the dict of the response as to_dict gives it
    mgrCall,       \* the last get_tool / has_tool / execute_tool call on the
                   \* ToolsManager and what it gave
    apiCall,       \* the transport under direct calls, its last send_message
                   \* or receive_message call and what it gave
    valPc,         \* position of the _validate_arguments run
    valKeys,       \* the keys of its arguments dict
    valSchema,     \* its schema
    valOut,        \* what it gave: <<"ok">> or the text of its ValueError
    taskPc,        \* position of the loop task created by each start call
    taskCur        \* the request each loop task has in hand ("" if none)

loopVars == <<running, pc, cur, resp, execTool, execArgs, executed, handed,
              wasInit, toolOut, curCall>>

regVars == <<tools, regError>>

httpVars == <<httpRunning, serving, queue, futures, futState, futResult,
              callPc, callReq, callOut>>

rlVars == <<clock, requests, acqPc, acqNow, acqWake, acqSeen, admitAt>>

reqVars == <<reqPc, attempt, outcomes, delays, reqResult>>

stdioVars == <<stdioRunning, stdinReader, eof, lineNo, curLine, lastRead,
               stdout>>

codecVars == <<codecPc, reqObj, reqWire, reqBack, wireBack, respObj, respWire>>

mgrVars == <<mgrCall>>

apiVars == <<apiCall>>

valVars == <<valPc, valKeys, valSchema, valOut>>

taskVars == <<taskPc, taskCur>>

notApiVars == <<codecVars, mgrVars, valVars, taskVars>>

pureVars == <<codecVars, mgrVars, apiVars, valVars, taskVars>>

extVars == <<rlVars, reqVars, stdioVars, pureVars>>

baseVars == <<initialized, regVars, loopVars, httpVars, rlVars, reqVars, stdioVars>>

vars == <<initialized, regVars, loopVars, httpVars, extVars>>

\* ------------------------------------------------- ToolsManager (base.py)
RECURSIVE IndexOf(_, _, _)
\* position of the key in the dict's items from position i on, 0 if absent
IndexOf(d, name, i) ==
    IF i > Len(d) THEN 0
    ELSE IF d[i].name = name THEN i
    ELSE IndexOf(d, name, i + 1)

\* name in self.tools
has_tool(d, name) == IndexOf(d, name, 1) # 0

\* self.tools[name]
get_tool(d, name) == d[IndexOf(d, name, 1)].tool

\* self.tools[name] = tool: a present key keeps its place and takes the new
\* value, a new key goes last
DictSet(d, name, tool) ==
    IF has_tool(d, name)
    THEN [d EXCEPT ![IndexOf(d, name, 1)].tool = tool]
    ELSE Append(d, [name |-> name, tool |-> tool])

\* del self.tools[name]
DictDel_DropRest(d, name) ==
    LET k == IndexOf(d, name, 1)
    IN  SubSeq(d, 1, k - 1)
DictDel(d, name) ==
    LET k == IndexOf(d, name, 1)
    IN  SubSeq(d, 1, k - 1) \o SubSeq(d, k + 1, Len(d))

\* register_tool without the duplicate check: the assignment replaces the
\* tool registered first
RegisterResult_Overwrite(d, t) ==
    [tools |-> DictSet(d, ToolName(t), t), error |-> ""]

\* ToolsManager.register_tool as a function: the dict and the error raised
RegisterResult(d, t) ==
    IF has_tool(d, ToolName(t))
    THEN [tools |-> d, error |-> "already registered"]
    ELSE [tools |-> DictSet(d, ToolName(t), t), error |-> ""]

\* ToolsManager.unregister_tool as a function
UnregisterResult(d, name) ==
    IF ~has_tool(d, name)
    THEN [tools |-> d, error |-> "not found"]
    ELSE [tools |-> DictDel(d, name), error |-> ""]

\* ToolsManager.list_tools: the schemas (by tool name) in dict order
list_tools_Reversed(d) == [i \in 1..Len(d) |-> ToolName(d[Len(d) + 1 - i].tool)]
list_tools(d) == [i \in 1..Len(d) |-> ToolName(d[i].tool)]

\* ------------------------------------------------- tools: execute
\* what awaiting tool.execute(arguments) can give: a returned ToolResult, or
\* a raised exception with its text
Returned(result) == [raised |-> FALSE, result |-> result, text |-> <<>>]
Raised(text) == [raised |-> TRUE, result |-> NoResult, text |-> text]

\* EchoTool.execute
EchoExecute(args) ==
    IF args.kind = "null"
    THEN Raised(<<"argument of type 'NoneType' is not iterable">>)
    ELSE IF ValidateArguments(args.keys, EchoSchema) # <<"ok">>
    THEN Raised(ValidateArguments(args.keys, EchoSchema))
    ELSE Returned(TextResult(<<"Echo: ", "message">>, FALSE))

\* Tool.execute of any other tool: the contract leaves open whether it
\* returns a result, returns a result flagged as an error, or raises
ToolOutcomes(t, args) ==
    IF ToolClass(t) = "EchoTool"
    THEN {EchoExecute(args)}
    ELSE {Returned(TextResult(<<"Test: ", "value">>, FALSE)),
          Returned(TextResult(<<"test failed">>, TRUE)),
          Raised(<<"unexpected fault">>)}

\* ------------------------------------------------- MCPServer handlers
\* A handler either returns a result, raises, or (tools/call) reaches the
\* await of tools_manager.execute_tool.
HReturn(result, init) ==
    [kind |-> "return", result |-> result, text |-> <<>>, initialized |-> init]
HRaise(text, init) ==
    [kind |-> "raise", result |-> NoResult, text |-> text, initialized |-> init]
HAwait(init) ==
    [kind |-> "await", result |-> NoResult, text |-> <<>>, initialized |-> init]

\* MCPServer.__init__: self.protocol_version
protocol_version == "2024-11-05"

\* InitializeResult(protocol_version, capabilities, server_info).model_dump()
InitializeResult ==
    [kind |-> "init", tools |-> <<>>,
     content |-> <<protocol_version, "capabilities", "server_info">>,
     is_error |-> FALSE]

\* _handle_initialize that clears the flag when the parameters are rejected
HandleInitialize_ResetOnFailure(params, init, d) ==
    IF params.present /\ params.init
    THEN HReturn(InitializeResult, TRUE)
    ELSE HRaise(<<"Invalid initialize parameters: ", "validation error">>, FALSE)

\* _handle_initialize that accepts the server's own version only
HandleInitialize_OwnVersionOnly(params, init, d) ==
    IF params.present /\ params.init /\ params.version = protocol_version
    THEN HReturn(InitializeResult, TRUE)
    ELSE HRaise(<<"Invalid initialize parameters: ", "validation error">>, init)

\* MCPServer._handle_initialize
HandleInitialize(params, init, d) ==
    IF params.present /\ params.init
    THEN HReturn(InitializeResult, TRUE)
    ELSE HRaise(<<"Invalid initialize parameters: ", "validation error">>, init)

\* MCPServer._handle_tools_list
HandleToolsList(params, init, d) ==
    IF ~init
    THEN HRaise(<<"Server not initialized">>, init)
    ELSE HReturn([kind |-> "tools", tools |-> list_tools(d), content |-> <<>>,
                  is_error |-> FALSE], init)

\* _handle_tools_call without the initialized check
HandleToolsCall_NoInitCheck(params, init, d) ==
    IF params.name \in {NoName, ""}
    THEN HRaise(<<"Tool name is required">>, init)
    ELSE IF ~has_tool(d, params.name)
    THEN HRaise(<<"Tool not found: ", params.name>>, init)
    ELSE HAwait(init)

\* _handle_tools_call without the has_tool check: get_tool raises inside the
\* try block and the failure comes back as a tool result
HandleToolsCall_NoExistenceCheck(params, init, d) ==
    IF ~init
    THEN HRaise(<<"Server not initialized">>, init)
    ELSE IF params.name \in {NoName, ""}
    THEN HRaise(<<"Tool name is required">>, init)
    ELSE IF ~has_tool(d, params.name)
    THEN HReturn(TextResult(<<"Tool execution failed: ", "Tool '", params.name,
                              "' not found">>, TRUE), init)
    ELSE HAwait(init)

\* MCPServer._handle_tools_call up to the await of execute_tool
HandleToolsCall(params, init, d) ==
    IF ~init
    THEN HRaise(<<"Server not initialized">>, init)
    ELSE IF params.name \in {NoName, ""}
    THEN HRaise(<<"Tool name is required">>, init)
    ELSE IF ~has_tool(d, params.name)
    THEN HRaise(<<"Tool not found: ", params.name>>, init)
    ELSE HAwait(init)

\* _handle_tools_call without the try block around execute_tool: the fault
\* leaves the handler
ToolsCallResult_Propagate(outcome, init) ==
    IF outcome.raised
    THEN HRaise(outcome.text, init)
    ELSE HReturn(outcome.result, init)

\* MCPServer._handle_tools_call from the await on
ToolsCallResult(outcome, init) ==
    IF outcome.raised
    THEN HReturn(TextResult(<<"Tool execution failed: ">> \o outcome.text, TRUE), init)
    ELSE HReturn(outcome.result, init)

\* MCPServer._handlers
Handlers == {"initialize", "tools/list", "tools/call"}

\* self._handlers.get(request.method) applied to request.params or {}
CallHandler(method, params, init, d) ==
    CASE method = "initialize" -> HandleInitialize(params, init, d)
      [] method = "tools/list" -> HandleToolsList(params, init, d)
      [] method = "tools/call" -> HandleToolsCall(params, init, d)

\* handle_request whose except clause answers nothing
Respond_FaultUnanswered(req, h) ==
    IF h.kind = "return"
    THEN <<Success(h.result, req.id)>>
    ELSE <<>>

\* MCPServer.handle_request from "Return response" on: what it returns for a
\* handler that returned or raised (<<>> is None)
Respond(req, h) ==
    IF h.kind = "return"
    THEN <<Success(h.result, req.id)>>
    ELSE IF req.id # NoId
    THEN <<CreateError(INTERNAL_ERROR, <<"Internal error: ">> \o h.text, req.id)>>
    ELSE <<>>

\* handle_request that reports an unknown method as an internal error
HandleRequest_UnknownAsInternal(req, init, d) ==
    IF req.jsonrpc # "2.0"
    THEN [kind |-> "return",
          resp |-> <<CreateError(INVALID_REQUEST, <<"Invalid JSON-RPC version">>, req.id)>>,
          h |-> HReturn(NoResult, init)]
    ELSE IF req.id = NoId
    THEN [kind |-> "return", resp |-> <<>>, h |-> HReturn(NoResult, init)]
    ELSE IF req.method \notin Handlers
    THEN [kind |-> "return",
          resp |-> <<CreateError(INTERNAL_ERROR, <<"Method not found: ", req.method>>, req.id)>>,
          h |-> HReturn(NoResult, init)]
    ELSE [kind |-> "handler", resp |-> <<>>,
          h |-> CallHandler(req.method, req.params, init, d)]

\* handle_request without the check of the protocol tag
HandleRequest_NoTagCheck(req, init, d) ==
    IF req.id = NoId
    THEN [kind |-> "return", resp |-> <<>>, h |-> HReturn(NoResult, init)]
    ELSE IF req.method \notin Handlers
    THEN [kind |-> "return",
          resp |-> <<CreateError(METHOD_NOT_FOUND, <<"Method not found: ", req.method>>, req.id)>>,
          h |-> HReturn(NoResult, init)]
    ELSE [kind |-> "handler", resp |-> <<>>,
          h |-> CallHandler(req.method, req.params, init, d)]

\* handle_request that calls the handler of a notification too
HandleRequest_NotifyDispatch(req, init, d) ==
    IF req.jsonrpc # "2.0"
    THEN [kind |-> "return",
          resp |-> <<CreateError(INVALID_REQUEST, <<"Invalid JSON-RPC version">>, req.id)>>,
          h |-> HReturn(NoResult, init)]
    ELSE IF req.method \notin Handlers
    THEN [kind |-> "return",
          resp |-> IF req.id = NoId THEN <<>>
                   ELSE <<CreateError(METHOD_NOT_FOUND, <<"Method not found: ", req.method>>, req.id)>>,
          h |-> HReturn(NoResult, init)]
    ELSE [kind |-> "handler", resp |-> <<>>,
          h |-> CallHandler(req.method, req.params, init, d)]

\* handle_request that treats an unknown method like an unknown notification
HandleRequest_DropUnknown(req, init, d) ==
    IF req.jsonrpc # "2.0"
    THEN [kind |-> "return",
          resp |-> <<CreateError(INVALID_REQUEST, <<"Invalid JSON-RPC version">>, req.id)>>,
          h |-> HReturn(NoResult, init)]
    ELSE IF req.id = NoId \/ req.method \notin Handlers
    THEN [kind |-> "return", resp |-> <<>>, h |-> HReturn(NoResult, init)]
    ELSE [kind |-> "handler", resp |-> <<>>,
          h |-> CallHandler(req.method, req.params, init, d)]

\* handle_request that checks the session state before it looks the method up
HandleRequest_InitFirst(req, init, d) ==
    IF req.jsonrpc # "2.0"
    THEN [kind |-> "return",
          resp |-> <<CreateError(INVALID_REQUEST, <<"Invalid JSON-RPC version">>, req.id)>>,
          h |-> HReturn(NoResult, init)]
    ELSE IF req.id = NoId
    THEN [kind |-> "return", resp |-> <<>>, h |-> HReturn(NoResult, init)]
    ELSE IF ~init /\ req.method # "initialize"
    THEN [kind |-> "handler", resp |-> <<>>,
          h |-> HRaise(<<"Server not initialized">>, init)]
    ELSE IF req.method \notin Handlers
    THEN [kind |-> "return",
          resp |-> <<CreateError(METHOD_NOT_FOUND, <<"Method not found: ", req.method>>, req.id)>>,
          h |-> HReturn(NoResult, init)]
    ELSE [kind |-> "handler", resp |-> <<>>,
          h |-> CallHandler(req.method, req.params, init, d)]

\* MCPServer.handle_request up to the call of the handler: the response it
\* returns at once (kind "return"), or the handler's state (kind "handler")
HandleRequest(req, init, d) ==
    IF req.jsonrpc # "2.0"
    THEN [kind |-> "return",
          resp |-> <<CreateError(INVALID_REQUEST, <<"Invalid JSON-RPC version">>, req.id)>>,
          h |-> HReturn(NoResult, init)]
    ELSE IF req.id = NoId
    THEN [kind |-> "return", resp |-> <<>>, h |-> HReturn(NoResult, init)]
    ELSE IF req.method \notin Handlers
    THEN [kind |-> "return",
          resp |-> <<CreateError(METHOD_NOT_FOUND, <<"Method not found: ", req.method>>, req.id)>>,
          h |-> HReturn(NoResult, init)]
    ELSE [kind |-> "handler", resp |-> <<>>,
          h |-> CallHandler(req.method, req.params, init, d)]

\* ------------------------------------------------- registry operations
\* MCPServer.register_tool / ToolsManager.register_tool
RegisterTool(t) ==
    /\ tools' = RegisterResult(tools, t).tools
    /\ regError' = RegisterResult(tools, t).error
    /\ UNCHANGED <<extVars, initialized, loopVars, httpVars>>

\* ToolsManager.unregister_tool
UnregisterTool(name) ==
    /\ tools' = UnregisterResult(tools, name).tools
    /\ regError' = UnregisterResult(tools, name).error
    /\ UNCHANGED <<extVars, initialized, loopVars, httpVars>>

\* ------------------------------------------------- MCPServer message loop
\* MCPServer.start over a transport whose start only marks it started; a
\* server is started when no loop task of an earlier start is alive
Start ==
    /\ pc = "off"
    /\ ~running
    /\ running' = TRUE
    /\ pc' = "top"
    /\ UNCHANGED <<extVars, initialized, regVars, cur, resp, execTool, execArgs,
                   executed, handed, wasInit, toolOut, curCall, httpVars>>

\* MCPServer.stop over such a transport
Stop ==
    /\ running
    /\ running' = FALSE
    /\ UNCHANGED <<extVars, initialized, regVars, pc, cur, resp, execTool, execArgs,
                   executed, handed, wasInit, toolOut, curCall, httpVars>>

\* _message_loop: while self._running; the iteration's locals and the
\* record of what the last iteration did start afresh
LoopTop ==
    /\ pc = "top"
    /\ pc' = IF running THEN "recv" ELSE "off"
    /\ cur' = <<>>
    /\ resp' = <<>>
    /\ executed' = {}
    /\ handed' = <<>>
    /\ wasInit' = FALSE
    /\ toolOut' = <<>>
    /\ curCall' = 0
    /\ UNCHANGED <<extVars, initialized, regVars, running, execTool, execArgs,
                   httpVars>>

\* _message_loop: request = await self.transport.receive_message(), for a
\* transport that returns any request or None
LoopReceive ==
    /\ pc = "recv"
    /\ \E m \in {<<>>} \cup {<<e>> : e \in Envelopes} :
          /\ cur' = m
          /\ pc' = IF m = <<>> THEN "top" ELSE "handle"
    /\ UNCHANGED <<extVars, initialized, regVars, running, resp, execTool, execArgs,
                   executed, handed, wasInit, toolOut, curCall, httpVars>>

\* _message_loop: response = await self.handle_request(request), up to the
\* return of handle_request or to the await of the tool's execute
LoopHandle ==
    /\ pc = "handle"
    /\ LET r == HandleRequest(cur[1], initialized, tools)
       IN  IF r.kind = "return"
           THEN /\ resp' = r.resp
                /\ pc' = "send"
                /\ UNCHANGED <<initialized, execTool, execArgs, executed>>
           ELSE IF r.h.kind = "await"
           THEN /\ execTool' = <<get_tool(tools, cur[1].params.name)>>
                /\ execArgs' = IF cur[1].params.arguments.kind = "absent"
                                THEN [kind |-> "dict", keys |-> {}]
                                ELSE cur[1].params.arguments
                /\ executed' = executed \cup {get_tool(tools, cur[1].params.name)}
                /\ pc' = "exec"
                /\ UNCHANGED <<initialized, resp>>
           ELSE /\ resp' = Respond(cur[1], r.h)
                /\ initialized' = r.h.initialized
                /\ pc' = "send"
                /\ UNCHANGED <<execTool, execArgs, executed>>
    /\ wasInit' = initialized
    /\ UNCHANGED <<extVars, regVars, running, cur, handed, toolOut, curCall, httpVars>>

\* the awaited tool.execute returns or raises, and handle_request returns
ToolReturn ==
    /\ pc = "exec"
    /\ \E o \in ToolOutcomes(execTool[1], execArgs) :
          /\ toolOut' = <<o>>
          /\ resp' = Respond(cur[1], ToolsCallResult(o, initialized))
    /\ execTool' = <<>>
    /\ pc' = "send"
    /\ UNCHANGED <<extVars, initialized, regVars, running, cur, execArgs, executed,
                   handed, wasInit, curCall, httpVars>>

\* _message_loop: if response is not None: await transport.send_message
LoopSend ==
    /\ pc = "send"
    /\ handed' = handed \o resp
    /\ pc' = "top"
    /\ UNCHANGED <<extVars, initialized, regVars, running, cur, resp, execTool,
                   execArgs, executed, wasInit, toolOut, curCall, httpVars>>

\* ------------------------------------------------- HTTPTransport (http.py)
Calls == 1..MaxCalls
Keys == {IdStr(id) : id \in Ids}

\* the envelopes the HTTP calls of the model post
HttpEnvelopes ==
    {e \in Envelopes :
        /\ e.jsonrpc = "2.0"
        /\ e.method = "tools/call"
        /\ e.params.name = "echo"
        /\ e.params.arguments = [kind |-> "dict", keys |-> {"message"}]}

\* The message loop and the HTTP handlers are tasks of one event loop: a
\* handler, start or stop runs only while the loop task is suspended in an
\* await.  handle_request's return and send_message follow each other
\* without an await between them.
LoopSuspended == pc # "send"

NoOut == [kind |-> "none", resp |-> <<>>, origin |-> 0]

\* self._response_futures[key] = future
FutSet(f, key, c) == [f EXCEPT ![key] = c]

\* self._response_futures.pop(key, None): the dict afterwards
FutPop(f, key) == [f EXCEPT ![key] = 0]

\* handle_jsonrpc: if jsonrpc_request.id is not None
WaitsForResponse_Always(e) == TRUE
WaitsForResponse(e) == e.id # NoId

\* bodies of a POST that give no request: no bytes at all, bytes that are
\* not UTF-8, text that is not JSON, JSON that is not an object
Bodies == {"empty", "badutf8", "badjson", "nonobject"}

\* handle_jsonrpc: the response for such a body.  The HTTPException raised
\* for an empty body is caught by the handler's own except Exception;
\* UnicodeDecodeError and the ValueError of deserialize_request are caught
\* by except ValueError.
BodyError(b) ==
    IF b = "empty"
    THEN CreateError(INTERNAL_ERROR, <<"Internal error: ", "400: Empty request body">>, NoId)
    ELSE CreateError(PARSE_ERROR, <<"Parse error: ", b>>, NoId)

\* handle_jsonrpc from the body to the wait: the request is queued and, when
\* it has an identifier, a new Future is stored under the identifier's text;
\* a request without identifier is answered 204 at once
Post(c, e) ==
    /\ LoopSuspended
    /\ serving
    /\ callPc[c] = "idle"
    /\ \A b \in Calls : b < c => callPc[b] # "idle"
    /\ callReq' = [callReq EXCEPT ![c] = <<e>>]
    /\ queue' = Append(queue, [req |-> e, call |-> c])
    /\ IF WaitsForResponse(e)
       THEN /\ futures' = FutSet(futures, IdStr(e.id), c)
            /\ futState' = [futState EXCEPT ![c] = "pending"]
            /\ callPc' = [callPc EXCEPT ![c] = "waiting"]
            /\ UNCHANGED callOut
       ELSE /\ callPc' = [callPc EXCEPT ![c] = "returned"]
            /\ callOut' = [callOut EXCEPT ![c] =
                              [kind |-> "no_content", resp |-> <<>>, origin |-> 0]]
            /\ UNCHANGED <<futures, futState>>
    /\ UNCHANGED <<extVars, initialized, regVars, loopVars, httpRunning, serving,
                   futResult>>

\* handle_jsonrpc for a body that gives no request: the error response is
\* returned with status 200, nothing is queued and no Future is made
PostMalformed(c, b) ==
    /\ LoopSuspended
    /\ serving
    /\ callPc[c] = "idle"
    /\ \A a \in Calls : a < c => callPc[a] # "idle"
    /\ callPc' = [callPc EXCEPT ![c] = "returned"]
    /\ callOut' = [callOut EXCEPT ![c] =
                      [kind |-> "rejected", resp |-> <<BodyError(b)>>, origin |-> 0]]
    /\ UNCHANGED <<extVars, initialized, regVars, loopVars, httpRunning, serving,
                   queue, futures, futState, futResult, callReq>>

\* handle_jsonrpc: wait_for returns the result set on the call's Future
Return(c) ==
    /\ LoopSuspended
    /\ callPc[c] = "waiting"
    /\ futState[c] = "done"
    /\ callPc' = [callPc EXCEPT ![c] = "returned"]
    /\ callOut' = [callOut EXCEPT ![c] =
                      [kind |-> "response", resp |-> <<futResult[c].resp>>,
                       origin |-> futResult[c].origin]]
    /\ UNCHANGED <<extVars, initialized, regVars, loopVars, httpRunning, serving, queue,
                   futures, futState, futResult, callReq>>

\* handle_jsonrpc: wait_for times out after 30 seconds on a Future that is
\* still pending; it cancels the Future, the handler pops the identifier's
\* key and returns the timeout error
Timeout(c) ==
    /\ LoopSuspended
    /\ callPc[c] = "waiting"
    /\ futState[c] = "pending"
    /\ futState' = [futState EXCEPT ![c] = "cancelled"]
    /\ futures' = FutPop(futures, IdStr(callReq[c][1].id))
    /\ callPc' = [callPc EXCEPT ![c] = "returned"]
    /\ callOut' = [callOut EXCEPT ![c] =
                      [kind |-> "timeout",
                       resp |-> <<CreateError(INTERNAL_ERROR, <<"Request timeout">>,
                                              callReq[c][1].id)>>,
                       origin |-> 0]]
    /\ UNCHANGED <<extVars, initialized, regVars, loopVars, httpRunning, serving, queue,
                   futResult, callReq>>

\* handle_jsonrpc: the awaited Future was cancelled by stop; CancelledError
\* is not an Exception and leaves the handler
Cancelled(c) ==
    /\ LoopSuspended
    /\ callPc[c] = "waiting"
    /\ futState[c] = "cancelled"
    /\ callPc' = [callPc EXCEPT ![c] = "returned"]
    /\ callOut' = [callOut EXCEPT ![c] =
                      [kind |-> "cancelled", resp |-> <<>>, origin |-> 0]]
    /\ UNCHANGED <<extVars, initialized, regVars, loopVars, httpRunning, serving, queue,
                   futures, futState, futResult, callReq>>

\* HTTPTransport.send_message as a function of the transport's state: the
\* Futures dict, the Future states and results afterwards
SendMessage(m, origin, run, f, fs, fr) ==
    IF ~run \/ m.id = NoId
    THEN [futures |-> f, futState |-> fs, futResult |-> fr]
    ELSE LET c == f[IdStr(m.id)]
         IN  IF c # 0 /\ fs[c] = "pending"
             THEN [futures |-> FutPop(f, IdStr(m.id)),
                   futState |-> [fs EXCEPT ![c] = "done"],
                   futResult |-> [fr EXCEPT ![c] = [resp |-> m, origin |-> origin]]]
             ELSE [futures |-> FutPop(f, IdStr(m.id)), futState |-> fs,
                   futResult |-> fr]

\* receive_message: asyncio.wait_for(self._request_queue.get(), timeout=0.1)
\* ends for any queue, with a request or with TimeoutError
ReceiveReturns_Blocking(q) == q # <<>>
ReceiveReturns(q) == TRUE

\* HTTPTransport.receive_message: the head of the queue, or None when the
\* transport is not running or the queue stays empty for 0.1 s
HttpReceive ==
    /\ pc = "recv"
    /\ ReceiveReturns(queue)
    /\ IF httpRunning /\ queue # <<>>
       THEN /\ cur' = <<Head(queue).req>>
            /\ curCall' = Head(queue).call
            /\ queue' = Tail(queue)
            /\ pc' = "handle"
       ELSE /\ cur' = <<>>
            /\ curCall' = 0
            /\ pc' = "top"
            /\ UNCHANGED queue
    /\ UNCHANGED <<extVars, initialized, regVars, running, resp, execTool, execArgs,
                   executed, handed, wasInit, toolOut,
                   httpRunning, serving, futures, futState, futResult, callPc,
                   callReq, callOut>>

\* _message_loop: if response is not None: await transport.send_message,
\* over the HTTP transport
HttpSend ==
    /\ pc = "send"
    /\ handed' = handed \o resp
    /\ pc' = "top"
    /\ IF resp = <<>>
       THEN UNCHANGED <<futures, futState, futResult>>
       ELSE LET r == SendMessage(resp[1], curCall, httpRunning, futures,
                                 futState, futResult)
            IN  /\ futures' = r.futures
                /\ futState' = r.futState
                /\ futResult' = r.futResult
    /\ UNCHANGED <<extVars, initialized, regVars, running, cur, resp, execTool,
                   execArgs, executed, wasInit, toolOut, curCall, httpRunning,
                   serving, queue, callPc, callReq, callOut>>

\* MCPServer.start over HTTPTransport.start
HttpStart ==
    /\ pc = "off"
    /\ ~running
    /\ ~serving
    /\ running' = TRUE
    /\ pc' = "top"
    /\ httpRunning' = TRUE
    /\ serving' = TRUE
    /\ UNCHANGED <<extVars, initialized, regVars, cur, resp, execTool, execArgs,
                   executed, handed, wasInit, toolOut, curCall, queue, futures,
                   futState, futResult, callPc, callReq, callOut>>

\* MCPServer.stop over HTTPTransport.stop: a running transport cancels the
\* pending Futures, clears the dict and empties the queue
HttpStop ==
    /\ LoopSuspended
    /\ running
    /\ running' = FALSE
    /\ IF httpRunning
       THEN /\ httpRunning' = FALSE
            /\ futState' = [c \in Calls |->
                               IF /\ \E k \in Keys : futures[k] = c
                                  /\ futState[c] = "pending"
                               THEN "cancelled" ELSE futState[c]]
            /\ futures' = [k \in Keys |-> 0]
            /\ queue' = <<>>
       ELSE UNCHANGED <<httpRunning, futState, futures, queue>>
    /\ UNCHANGED <<extVars, initialized, regVars, pc, cur, resp, execTool, execArgs,
                   executed, handed, wasInit, toolOut, curCall, serving,
                   futResult, callPc, callReq, callOut>>

\* _run_server: the uvicorn server ends (asked to exit or not) and the
\* finally clause marks the transport not running
ServerExit ==
    /\ LoopSuspended
    /\ serving
    /\ serving' = FALSE
    /\ httpRunning' = FALSE
    /\ UNCHANGED <<extVars, initialized, regVars, loopVars, queue, futures, futState,
                   futResult, callPc, callReq, callOut>>

\* ------------------------------------------------- RateLimiter (context7.py)
MaxCallers == 5
MaxTime == 6
Callers == 1..MaxCallers
Times == 0..MaxTime

\* RateLimiter(max_requests, time_window), scaled down from (50, 60)
max_requests == 2
time_window == 3

RECURSIVE SeqMin(_)
\* min(self.requests)
SeqMin(s) ==
    IF Len(s) = 1 THEN s[1]
    ELSE IF s[1] <= SeqMin(Tail(s)) THEN s[1] ELSE SeqMin(Tail(s))

\* [req_time for req_time in self.requests if req_time > cutoff]
Prune(reqs, now) ==
    LET cutoff == now - time_window
        Keep(r) == r > cutoff
    IN  SelectSeq(reqs, Keep)

\* number of acquire calls that returned within (lo, hi]
AdmittedIn(lo, hi) ==
    Cardinality({c \in Callers :
                    admitAt[c] >= 0 /\ admitAt[c] > lo /\ admitAt[c] <= hi})

NotSeen == [admitted |-> 0, kept |-> 0, oldest |-> 0, wait |-> 0]

\* RateLimiter.acquire from its entry to its return or to its await of
\* asyncio.sleep(wait_time)
AcquireEnterStep(c) ==
    /\ acqPc[c] = "idle"
    /\ \A b \in Callers : b < c => acqPc[b] # "idle"
    /\ LET now == clock
           kept == Prune(requests, now)
           atLimit == Len(kept) >= max_requests
           oldest == IF atLimit THEN SeqMin(kept) ELSE 0
           wait_time == IF atLimit THEN oldest + time_window - now ELSE 0
       IN  /\ acqNow' = [acqNow EXCEPT ![c] = now]
           /\ acqSeen' = [acqSeen EXCEPT ![c] =
                             [admitted |-> AdmittedIn(now - time_window, now),
                              kept |-> Len(kept),
                              oldest |-> oldest,
                              wait |-> IF wait_time > 0 THEN wait_time ELSE 0]]
           /\ IF atLimit /\ wait_time > 0
              THEN /\ requests' = kept
                   /\ acqPc' = [acqPc EXCEPT ![c] = "sleeping"]
                   /\ acqWake' = [acqWake EXCEPT ![c] = now + wait_time]
                   /\ UNCHANGED admitAt
              ELSE /\ requests' = Append(kept, now)
                   /\ acqPc' = [acqPc EXCEPT ![c] = "done"]
                   /\ admitAt' = [admitAt EXCEPT ![c] = now]
                   /\ UNCHANGED acqWake
    /\ UNCHANGED clock

\* RateLimiter.acquire after its sleep: self.requests.append(now)
AcquireWakeStep(c) ==
    /\ acqPc[c] = "sleeping"
    /\ clock >= acqWake[c]
    /\ requests' = Append(requests, acqNow[c])
    /\ acqPc' = [acqPc EXCEPT ![c] = "done"]
    /\ admitAt' = [admitAt EXCEPT ![c] = clock]
    /\ UNCHANGED <<clock, acqNow, acqWake, acqSeen>>

AcquireEnter(c) ==
    /\ AcquireEnterStep(c)
    /\ UNCHANGED <<pureVars, initialized, regVars, loopVars, httpVars, reqVars, stdioVars>>

AcquireWake(c) ==
    /\ AcquireWakeStep(c)
    /\ UNCHANGED <<pureVars, initialized, regVars, loopVars, httpVars, reqVars, stdioVars>>

\* time passes
Tick ==
    /\ clock < MaxTime
    /\ clock' = clock + 1
    /\ UNCHANGED <<requests, acqPc, acqNow, acqWake, acqSeen, admitAt>>
    /\ UNCHANGED <<pureVars, initialized, regVars, loopVars, httpVars, reqVars, stdioVars>>

\* RateLimiter.__init__
LimiterIdle ==
    /\ clock = 0
    /\ requests = <<>>
    /\ acqPc = [c \in Callers |-> "idle"]
    /\ acqNow = [c \in Callers |-> 0]
    /\ acqWake = [c \in Callers |-> 0]
    /\ acqSeen = [c \in Callers |-> NotSeen]
    /\ admitAt = [c \in Callers |-> -1]

\* ------------------------------------- Context7Client._make_request
\* the default of the retries parameter
retries == 3

\* the caller of the limiter that is the _make_request under study; the
\* callers before it are other requests of the same client
ReqCaller == max_requests + 1

\* Retry-After header of a 429 response: absent, or its text
NoHeader == <<>>
RetryAfterTexts == {"0", "7", "Wed, 21 Oct 2015 07:28:00 GMT"}

\* int(text): the number, or <<>> when int raises ValueError
IntOf(text) ==
    CASE text = "0" -> <<0>>
      [] text = "7" -> <<7>>
      [] OTHER -> <<>>

\* what await self.client.request(...) gives: a response with its status
\* code and Retry-After header, httpx.TimeoutException or httpx.ConnectError
Outcomes ==
    {[kind |-> "response", status |-> c, retry_after |-> NoHeader] :
         c \in {200, 401, 429, 500}}
    \cup {[kind |-> "response", status |-> 429, retry_after |-> <<t>>] :
              t \in RetryAfterTexts}
    \cup {[kind |-> k, status |-> 0, retry_after |-> NoHeader] :
              k \in {"timeout", "connect"}}

\* how an attempt ends: the call returns, raises, or sleeps and continues
Returns == [pc |-> "returned", result |-> "returned", sleep |-> <<>>]
Raises(what) == [pc |-> "failed", result |-> what, sleep |-> <<>>]
SleepsThenContinues(d) == [pc |-> "sleep", result |-> "", sleep |-> <<d>>]

\* wait_time = 2 ** attempt
Backoff_Linear(att) == att + 1
Backoff(att) == 2 ^ att

\* status 401: raise ValueError("Authentication failed. ...")
On401_Retried(att) ==
    IF att < retries THEN SleepsThenContinues(Backoff(att))
    ELSE Raises("authentication_failed")
On401(att) == Raises("authentication_failed")

\* status 429
On429(header, att) ==
    IF att < retries
    THEN LET text == IF header = NoHeader THEN <<60>> ELSE IntOf(header[1])
         IN  IF text = <<>> THEN Raises("ValueError: invalid literal for int()")
             ELSE SleepsThenContinues(text[1])
    ELSE Raises("rate_limit_exceeded")

\* response.raise_for_status() on any other status: httpx.HTTPStatusError,
\* which no except clause of the loop catches
OnErrorStatus_Retried(att) ==
    IF att < retries THEN SleepsThenContinues(Backoff(att))
    ELSE Raises("HTTPStatusError")
OnErrorStatus(att) == Raises("HTTPStatusError")

\* except httpx.TimeoutException / except httpx.ConnectError
OnTransient(what, att) ==
    IF att < retries THEN SleepsThenContinues(Backoff(att)) ELSE Raises(what)

\* one iteration of for attempt in range(retries + 1), up to its return,
\* raise or sleep
AttemptResult(o, att) ==
    IF o.kind = "timeout" THEN OnTransient("timed_out", att)
    ELSE IF o.kind = "connect" THEN OnTransient("unable_to_connect", att)
    ELSE IF o.status = 401 THEN On401(att)
    ELSE IF o.status = 429 THEN On429(o.retry_after, att)
    ELSE IF o.status >= 400 THEN OnErrorStatus(att)
    ELSE Returns

\* _make_request: await self.rate_limiter.acquire(), up to its return or sleep
MakeRequest ==
    /\ reqPc = "idle"
    /\ AcquireEnterStep(ReqCaller)
    /\ reqPc' = IF acqPc'[ReqCaller] = "done" THEN "request" ELSE "acquire"
    /\ attempt' = 0
    /\ UNCHANGED <<outcomes, delays, reqResult>>
    /\ UNCHANGED <<pureVars, initialized, regVars, loopVars, httpVars, stdioVars>>

\* the sleep of acquire ends and the loop over the attempts begins
RequestAcquired ==
    /\ reqPc = "acquire"
    /\ AcquireWakeStep(ReqCaller)
    /\ reqPc' = "request"
    /\ UNCHANGED <<attempt, outcomes, delays, reqResult>>
    /\ UNCHANGED <<pureVars, initialized, regVars, loopVars, httpVars, stdioVars>>

\* client.request of the current attempt completes with outcome o
Attempt(o) ==
    /\ reqPc = "request"
    /\ LET r == AttemptResult(o, attempt)
       IN  /\ reqPc' = r.pc
           /\ reqResult' = r.result
           /\ delays' = delays \o r.sleep
    /\ outcomes' = Append(outcomes, o)
    /\ UNCHANGED attempt
    /\ UNCHANGED <<pureVars, initialized, regVars, loopVars, httpVars, rlVars, stdioVars>>

\* the sleep before a retry ends: continue with the next attempt, or leave
\* the loop and raise ValueError("Maximum retry attempts exceeded")
NextAttempt ==
    /\ reqPc = "sleep"
    /\ attempt' = attempt + 1
    /\ IF attempt + 1 <= retries
       THEN /\ reqPc' = "request"
            /\ UNCHANGED reqResult
       ELSE /\ reqPc' = "failed"
            /\ reqResult' = "max_retries_exceeded"
    /\ UNCHANGED <<outcomes, delays>>
    /\ UNCHANGED <<pureVars, initialized, regVars, loopVars, httpVars, rlVars, stdioVars>>

\* no _make_request has been called
RequestIdle ==
    /\ reqPc = "idle"
    /\ attempt = 0
    /\ outcomes = <<>>
    /\ delays = <<>>
    /\ reqResult = ""

\* ------------------------------------------------- StdioTransport (stdio.py)
\* number of lines the input stream carries in one run of StdioSpec
MaxLines == 3

\* requests that arrive as well-formed lines
StdioEnvelopes ==
    {e \in Envelopes :
        /\ e.jsonrpc = "2.0"
        /\ e.id \in IntIds \cup {NoId}
        /\ \/ e.method = "initialize" /\ e.params.present /\ e.params.init
           \/ /\ e.method = "tools/call"
              /\ e.params.name = "echo"
              /\ e.params.arguments = [kind |-> "dict", keys |-> {"message"}]}

\* What readline returns.  A line is kept by how receive_message treats it:
\*   "eof"        b'' at the end of the stream
\*   "empty"      only whitespace
\*   "badutf8"    bytes that are not UTF-8
\*   "request"    a JSON object (req is what from_dict makes of it)
\*   "nonobject"  JSON text that is not an object
\*   "badjson"    text that is not JSON; strId is the first match of
\*                "id"\s*:\s*"([^"]*)" in it and numId the first match of
\*                "id"\s*:\s*(\d+), <<>> when there is none
PlainLine(k) == [kind |-> k, req |-> <<>>, strId |-> <<>>, numId |-> <<>>]
EofRead == PlainLine("eof")
NoRead == PlainLine("none")
Lines ==
    {PlainLine("empty"), PlainLine("badutf8"), PlainLine("nonobject")}
    \cup {[kind |-> "request", req |-> <<e>>, strId |-> <<>>, numId |-> <<>>] :
              e \in StdioEnvelopes}
    \cup {[kind |-> "badjson", req |-> <<>>, strId |-> s, numId |-> n] :
              s \in {<<>>} \cup {<<i>> : i \in StrIds},
              n \in {<<>>} \cup {<<i>> : i \in IntIds}}

\* receive_message, lines 124-144: the identifier for the error response
RecoverId_NumericFirst(l) ==
    IF l.kind # "badjson" THEN NoId
    ELSE IF l.numId # <<>> THEN l.numId[1]
    ELSE IF l.strId # <<>> THEN l.strId[1]
    ELSE NoId
RecoverId(l) ==
    IF l.kind # "badjson" THEN NoId
    ELSE IF l.strId # <<>> THEN l.strId[1]
    ELSE IF l.numId # <<>> THEN l.numId[1]
    ELSE NoId

\* the error response of receive_message for a line
ParseErrorResponse(l) ==
    CreateError(PARSE_ERROR, <<"Parse error: ", l.kind>>, RecoverId(l))

\* receive_message sends the error response for a line that is text but
\* not a request, whether or not an identifier was recovered
SendsParseError_OnlyWithId(l) ==
    l.kind \in {"badjson", "nonobject"} /\ RecoverId(l) # NoId
SendsParseError(l) == l.kind \in {"badjson", "nonobject"}

\* send_message: sys.stdout.write(json_str + '\n')
StdoutWrite_Front(out, m, line) == <<[resp |-> m, line |-> line]>> \o out
StdoutWrite(out, m, line) == Append(out, [resp |-> m, line |-> line])

\* MCPServer.start over StdioTransport.start
StdioStart ==
    /\ pc = "off"
    /\ ~running
    /\ running' = TRUE
    /\ pc' = "top"
    /\ stdioRunning' = TRUE
    /\ stdinReader' = TRUE
    /\ UNCHANGED <<pureVars, initialized, regVars, cur, resp, execTool, execArgs,
                   executed, handed, wasInit, toolOut, curCall, httpVars,
                   rlVars, reqVars, eof, lineNo, curLine, lastRead, stdout>>

\* MCPServer.stop over StdioTransport.stop, while the loop task has not yet
\* run or is suspended in readline or in a tool's execute
StdioStop ==
    /\ running
    /\ pc \in {"top", "reading", "exec"}
    /\ running' = FALSE
    /\ stdioRunning' = FALSE
    /\ stdinReader' = FALSE
    /\ UNCHANGED <<pureVars, initialized, regVars, pc, cur, resp, execTool, execArgs,
                   executed, handed, wasInit, toolOut, curCall, httpVars,
                   rlVars, reqVars, eof, lineNo, curLine, lastRead, stdout>>

\* receive_message up to its first return or to await readline()
StdioReceive ==
    /\ pc = "recv"
    /\ pc' = IF stdioRunning /\ stdinReader THEN "reading" ELSE "top"
    /\ cur' = <<>>
    /\ lastRead' = [line |-> NoRead, running |-> stdioRunning]
    /\ UNCHANGED <<pureVars, initialized, regVars, running, resp, execTool, execArgs,
                   executed, handed, wasInit, toolOut, curCall, httpVars,
                   rlVars, reqVars, stdioRunning, stdinReader, eof, lineNo,
                   curLine, stdout>>

\* readline returns l and receive_message runs to its return; the stream
\* gives b'' from its end on, and no line arrives beyond MaxLines
StdioReadLine(l) ==
    /\ pc = "reading"
    /\ IF l.kind = "eof" THEN TRUE ELSE ~eof /\ lineNo < MaxLines
    /\ eof' = (eof \/ l.kind = "eof")
    /\ lineNo' = IF l.kind = "eof" THEN lineNo ELSE lineNo + 1
    /\ lastRead' = [line |-> l, running |-> stdioRunning]
    /\ IF l.kind = "request"
       THEN /\ cur' = l.req
            /\ curLine' = lineNo'
            /\ pc' = "handle"
            /\ UNCHANGED stdout
       ELSE /\ cur' = <<>>
            /\ pc' = "top"
            /\ stdout' = IF SendsParseError(l) /\ stdioRunning
                         THEN StdoutWrite(stdout, ParseErrorResponse(l), lineNo')
                         ELSE stdout
            /\ UNCHANGED curLine
    /\ UNCHANGED <<pureVars, initialized, regVars, running, resp, execTool, execArgs,
                   executed, handed, wasInit, toolOut, curCall, httpVars,
                   rlVars, reqVars, stdioRunning, stdinReader>>

\* readline at the end of the stream
StdioReadEof ==
    /\ eof
    /\ StdioReadLine(EofRead)

\* _message_loop: if response is not None: await transport.send_message,
\* over the stdio transport; a transport that is not running raises and the
\* loop's except clause drops the response
StdioSend ==
    /\ pc = "send"
    /\ handed' = handed \o resp
    /\ pc' = "top"
    /\ stdout' = IF resp # <<>> /\ stdioRunning
                 THEN StdoutWrite(stdout, resp[1], curLine)
                 ELSE stdout
    /\ UNCHANGED <<pureVars, initialized, regVars, running, cur, resp, execTool,
                   execArgs, executed, wasInit, toolOut, curCall, httpVars,
                   rlVars, reqVars, stdioRunning, stdinReader, eof, lineNo,
                   curLine, lastRead>>

\* StdioTransport.__init__
StdioIdle ==
    /\ stdioRunning = FALSE
    /\ stdinReader = FALSE
    /\ eof = FALSE
    /\ lineNo = 0
    /\ curLine = 0
    /\ lastRead = [line |-> NoRead, running |-> FALSE]
    /\ stdout = <<>>

\* ------------------------------------------------- codec (protocol.py)
\* A dict of the wire form is its key set and the value under each key; a
\* key that is absent keeps the idle value.  Under "params" and "id" the
\* values NoParams and NoId stand for JSON null.  json.dumps and json.loads
\* carry such a dict to text and back unchanged.
RequestKeys == {"jsonrpc", "method", "params", "id"}
NoWire == [keys |-> {}, jsonrpc |-> "", method |-> "", params |-> NoParams, id |-> NoId]
WireTags == {"2.0", "1.0"}
WireMethods == {"initialize", "tools/call"}
WireDicts ==
    {w \in [keys : SUBSET RequestKeys, jsonrpc : WireTags \cup {""},
            method : WireMethods \cup {""}, params : Params,
            id : Ids \cup {NoId}] :
        /\ ("jsonrpc" \in w.keys) = (w.jsonrpc # "")
        /\ ("method" \in w.keys) = (w.method # "")
        /\ "params" \notin w.keys => w.params = NoParams
        /\ "id" \notin w.keys => w.id = NoId}

\* dict.get(key, default)
Get(w, key, default) == IF key \in w.keys THEN w[key] ELSE default

\* JSONRPCRequest(): the dataclass defaults
DefaultRequest == [jsonrpc |-> "2.0", method |-> "", params |-> NoParams, id |-> NoId]

\* JSONRPCRequest.from_dict
RequestFromDict(w) ==
    [jsonrpc |-> Get(w, "jsonrpc", "2.0"),
     method |-> Get(w, "method", ""),
     params |-> Get(w, "params", NoParams),
     id |-> Get(w, "id", NoId)]

\* a params dict with no entry
EmptyParams ==
    [present |-> TRUE, init |-> FALSE, version |-> NoVersion, name |-> NoName,
     arguments |-> NoArguments]

\* JSONRPCRequest.to_dict
RequestToDict_OmitEmptyParams(r) ==
    [keys |-> {"jsonrpc", "method"}
              \cup (IF r.params \notin {NoParams, EmptyParams} THEN {"params"} ELSE {})
              \cup (IF r.id # NoId THEN {"id"} ELSE {}),
     jsonrpc |-> r.jsonrpc,
     method |-> r.method,
     params |-> IF r.params \notin {NoParams, EmptyParams} THEN r.params ELSE NoParams,
     id |-> r.id]
RequestToDict(r) ==
    [keys |-> {"jsonrpc", "method"}
              \cup (IF r.params # NoParams THEN {"params"} ELSE {})
              \cup (IF r.id # NoId THEN {"id"} ELSE {}),
     jsonrpc |-> r.jsonrpc,
     method |-> r.method,
     params |-> r.params,
     id |-> r.id]

\* JSONRPCResponse objects: built by success and create_error, or directly
\* with both fields or neither
SomeError == [code |-> INTERNAL_ERROR, message |-> <<"Internal error: ">>]
Responses ==
    [id : Ids \cup {NoId},
     result : {NoResult, TextResult("message", FALSE)},
     error : {NoError, SomeError}]

NoRespWire ==
    [keys |-> {}, jsonrpc |-> "", id |-> NoId, result |-> NoResult, error |-> NoError]

\* JSONRPCResponse.to_dict; under "result" NoResult stands for JSON null
ResponseToDict_EachIfSet(r) ==
    [keys |-> {"jsonrpc", "id"}
              \cup (IF r.error # NoError THEN {"error"} ELSE {})
              \cup (IF r.result # NoResult THEN {"result"} ELSE {}),
     jsonrpc |-> "2.0",
     id |-> r.id,
     result |-> r.result,
     error |-> r.error]
ResponseToDict(r) ==
    [keys |-> {"jsonrpc", "id"}
              \cup (IF r.error # NoError THEN {"error"} ELSE {"result"}),
     jsonrpc |-> "2.0",
     id |-> r.id,
     result |-> IF r.error # NoError THEN NoResult ELSE r.result,
     error |-> r.error]

\* serialize_message(request)
EncodeRequest ==
    /\ codecPc = "request"
    /\ reqWire' = RequestToDict(reqObj)
    /\ codecPc' = "request_encoded"
    /\ UNCHANGED <<baseVars, mgrVars, apiVars, valVars, taskVars,
                   reqObj, reqBack, wireBack, respObj, respWire>>

\* deserialize_request of what serialize_message gave
DecodeEncoded ==
    /\ codecPc = "request_encoded"
    /\ reqBack' = RequestFromDict(reqWire)
    /\ codecPc' = "request_done"
    /\ UNCHANGED <<baseVars, mgrVars, apiVars, valVars, taskVars,
                   reqObj, reqWire, wireBack, respObj, respWire>>

\* deserialize_request(text)
DecodeWire ==
    /\ codecPc = "wire"
    /\ reqObj' = RequestFromDict(reqWire)
    /\ codecPc' = "wire_decoded"
    /\ UNCHANGED <<baseVars, mgrVars, apiVars, valVars, taskVars,
                   reqWire, reqBack, wireBack, respObj, respWire>>

\* serialize_message of what deserialize_request gave
EncodeDecoded ==
    /\ codecPc = "wire_decoded"
    /\ wireBack' = RequestToDict(reqObj)
    /\ codecPc' = "wire_done"
    /\ UNCHANGED <<baseVars, mgrVars, apiVars, valVars, taskVars,
                   reqObj, reqWire, reqBack, respObj, respWire>>

\* serialize_message(response)
EncodeResponse ==
    /\ codecPc = "response"
    /\ respWire' = ResponseToDict(respObj)
    /\ codecPc' = "response_done"
    /\ UNCHANGED <<baseVars, mgrVars, apiVars, valVars, taskVars,
                   reqObj, reqWire, reqBack, wireBack, respObj>>

\* no message is being encoded or decoded
CodecIdle ==
    /\ codecPc = "idle"
    /\ reqObj = DefaultRequest
    /\ reqWire = NoWire
    /\ reqBack = DefaultRequest
    /\ wireBack = NoWire
    /\ respObj = Success(NoResult, NoId)
    /\ respWire = NoRespWire

\* ------------------------------------------------- ToolsManager, called directly
\* what a call gave: the error raised ("" if none), the value returned by
\* has_tool, the tool returned by get_tool, the tool whose execute was
\* invoked and what it gave
NoCall ==
    [op |-> "none", name |-> "", error |-> "", found |-> FALSE, tool |-> <<>>,
     ran |-> <<>>, outcome |-> <<>>]

\* ToolsManager.get_tool as a function
GetResult(d, name) ==
    IF ~has_tool(d, name)
    THEN [NoCall EXCEPT !.op = "get", !.name = name, !.error = "not found"]
    ELSE [NoCall EXCEPT !.op = "get", !.name = name, !.tool = <<get_tool(d, name)>>]

\* ToolsManager.get_tool
GetTool(name) ==
    /\ mgrCall' = GetResult(tools, name)
    /\ UNCHANGED <<baseVars, codecVars, apiVars, valVars, taskVars>>

\* ToolsManager.has_tool
HasTool(name) ==
    /\ mgrCall' = [NoCall EXCEPT !.op = "has", !.name = name,
                                 !.found = has_tool(tools, name)]
    /\ UNCHANGED <<baseVars, codecVars, apiVars, valVars, taskVars>>

\* ToolsManager.execute_tool: get_tool, then the tool's execute, whose
\* result or fault is passed on
ExecuteTool(name, args) ==
    /\ IF GetResult(tools, name).error # ""
       THEN mgrCall' = [GetResult(tools, name) EXCEPT !.op = "execute"]
       ELSE \E o \in ToolOutcomes(get_tool(tools, name), args) :
               mgrCall' = [NoCall EXCEPT !.op = "execute", !.name = name,
                                         !.tool = <<get_tool(tools, name)>>,
                                         !.ran = <<get_tool(tools, name)>>,
                                         !.outcome = <<o>>]
    /\ UNCHANGED <<baseVars, codecVars, apiVars, valVars, taskVars>>

\* no call has been made on the ToolsManager directly
RegistryIdle == mgrCall = NoCall

\* ------------------------------------------------- transports, called directly
\* no direct call has been made; tr is the transport constructed
NoApi == [tr |-> "none", op |-> "none", error |-> "", got |-> <<>>]

\* send_message: if not self._running: raise RuntimeError
SendError_Silent(run) == ""
SendError(run) == IF ~run THEN "Transport not started" ELSE ""

\* the responses handed to send_message and the lines on stdin
DirectResponses == {Success(TextResult(<<"Echo: ", "message">>, FALSE), id) :
                       id \in {NoId} \cup {i \in Ids : i.v = 1}}
DirectLines ==
    {l \in Lines : l.kind \in {"empty", "badjson"}
                   \/ (l.kind = "request" /\ l.req[1].id \in {NoId, [t |-> "int", v |-> 1]})}

\* StdioTransport.start
DirectStdioStart ==
    /\ apiCall.tr = "stdio"
    /\ stdioRunning' = TRUE
    /\ stdinReader' = TRUE
    /\ UNCHANGED <<initialized, regVars, loopVars, httpVars, rlVars, reqVars,
                   notApiVars, apiVars, eof, lineNo, curLine, lastRead,
                   stdout>>

\* StdioTransport.stop
DirectStdioStop ==
    /\ apiCall.tr = "stdio"
    /\ stdioRunning' = FALSE
    /\ stdinReader' = FALSE
    /\ UNCHANGED <<initialized, regVars, loopVars, httpVars, rlVars, reqVars,
                   notApiVars, apiVars, eof, lineNo, curLine, lastRead,
                   stdout>>

\* StdioTransport.send_message(m)
DirectStdioSend(m) ==
    /\ apiCall.tr = "stdio"
    /\ Len(stdout) < MaxLines
    /\ apiCall' = [tr |-> "stdio", op |-> "send", error |-> SendError(stdioRunning),
                   got |-> <<>>]
    /\ stdout' = IF stdioRunning THEN StdoutWrite(stdout, m, 0) ELSE stdout
    /\ UNCHANGED <<initialized, regVars, loopVars, httpVars, rlVars, reqVars,
                   notApiVars, stdioRunning, stdinReader, eof, lineNo,
                   curLine, lastRead>>

\* StdioTransport.receive_message() from its call to its return
DirectStdioReceive ==
    /\ apiCall.tr = "stdio"
    /\ IF ~stdioRunning \/ ~stdinReader
       THEN /\ apiCall' = [tr |-> "stdio", op |-> "receive", error |-> "",
                           got |-> <<>>]
            /\ UNCHANGED <<eof, lineNo, stdout>>
       ELSE \E l \in DirectLines \cup {EofRead} :
               /\ IF l.kind = "eof" THEN TRUE
                  ELSE ~eof /\ lineNo < MaxLines /\ Len(stdout) < MaxLines
               /\ eof' = (eof \/ l.kind = "eof")
               /\ lineNo' = IF l.kind = "eof" THEN lineNo ELSE lineNo + 1
               /\ stdout' = IF SendsParseError(l)
                            THEN StdoutWrite(stdout, ParseErrorResponse(l), lineNo')
                            ELSE stdout
               /\ apiCall' = [tr |-> "stdio", op |-> "receive", error |-> "",
                              got |-> IF l.kind = "request" THEN l.req ELSE <<>>]
    /\ UNCHANGED <<initialized, regVars, loopVars, httpVars, rlVars, reqVars,
                   notApiVars, stdioRunning, stdinReader, curLine,
                   lastRead>>

\* HTTPTransport.start
DirectHttpStart ==
    /\ apiCall.tr = "http"
    /\ ~serving
    /\ httpRunning' = TRUE
    /\ serving' = TRUE
    /\ UNCHANGED <<initialized, regVars, loopVars, rlVars, reqVars, stdioVars,
                   pureVars, queue, futures, futState, futResult, callPc,
                   callReq, callOut>>

\* HTTPTransport.stop
DirectHttpStop ==
    /\ apiCall.tr = "http"
    /\ IF httpRunning
       THEN /\ httpRunning' = FALSE
            /\ futState' = [c \in Calls |->
                               IF /\ \E k \in Keys : futures[k] = c
                                  /\ futState[c] = "pending"
                               THEN "cancelled" ELSE futState[c]]
            /\ futures' = [k \in Keys |-> 0]
            /\ queue' = <<>>
       ELSE UNCHANGED <<httpRunning, futState, futures, queue>>
    /\ UNCHANGED <<initialized, regVars, loopVars, rlVars, reqVars, stdioVars,
                   pureVars, serving, futResult, callPc, callReq, callOut>>

\* HTTPTransport.send_message(m)
DirectHttpSend(m) ==
    /\ apiCall.tr = "http"
    /\ apiCall' = [tr |-> "http", op |-> "send", error |-> SendError(httpRunning),
                   got |-> <<>>]
    /\ LET r == SendMessage(m, 0, httpRunning, futures, futState, futResult)
       IN  /\ futures' = r.futures
           /\ futState' = r.futState
           /\ futResult' = r.futResult
    /\ UNCHANGED <<initialized, regVars, loopVars, rlVars, reqVars, stdioVars,
                   notApiVars, httpRunning, serving, queue, callPc,
                   callReq, callOut>>

\* HTTPTransport.receive_message() from its call to its return
DirectHttpReceive ==
    /\ apiCall.tr = "http"
    /\ IF httpRunning /\ queue # <<>>
       THEN /\ apiCall' = [tr |-> "http", op |-> "receive", error |-> "",
                           got |-> <<Head(queue).req>>]
            /\ queue' = Tail(queue)
       ELSE /\ apiCall' = [tr |-> "http", op |-> "receive", error |-> "",
                           got |-> <<>>]
            /\ UNCHANGED queue
    /\ UNCHANGED <<initialized, regVars, loopVars, rlVars, reqVars, stdioVars,
                   notApiVars, httpRunning, serving, futures, futState,
                   futResult, callPc, callReq, callOut>>

\* handle_jsonrpc of the HTTP transport under direct calls
DirectPost(c, e) ==
    /\ apiCall.tr = "http"
    /\ Post(c, e)

\* _run_server of the HTTP transport under direct calls
DirectServerExit ==
    /\ apiCall.tr = "http"
    /\ ServerExit

\* no transport is under direct calls
ApiIdle == apiCall = NoApi

\* ------------------------------------------------- Tool._validate_arguments
\* schemas: "required" is a list without repetition (absent is []),
\* "properties" a dict given by its keys (absent is {}),
\* "additionalProperties" a bool (absent is True)
RequiredLists ==
    {<<>>} \cup {<<a>> : a \in ArgKeys}
    \cup ({<<a, b>> : a \in ArgKeys, b \in ArgKeys} \ {<<a, a>> : a \in ArgKeys})
Schemas ==
    [required : RequiredLists, properties : SUBSET ArgKeys,
     additionalProperties : BOOLEAN]

\* tool._validate_arguments(arguments, schema)
Validate ==
    /\ valPc = "call"
    /\ valOut' = ValidateArguments(valKeys, valSchema)
    /\ valPc' = "done"
    /\ UNCHANGED <<baseVars, codecVars, mgrVars, apiVars, taskVars, valKeys,
                   valSchema>>

\* no validation is under way
ValidateIdle ==
    /\ valPc = "idle"
    /\ valKeys = {}
    /\ valSchema = EchoSchema
    /\ valOut = <<>>

\* ------------------------------------------------- MCPServer.start, called freely
\* Every start call creates a loop task; the transport is the abstract one,
\* whose start and stop only mark it and whose receive_message suspends the
\* caller until it returns a request or None.
Tasks == 1..MaxStarts

\* what receive_message returns to a loop task: None, a request whose
\* handler does not suspend, or a tools/call whose tool's execute suspends
Received == {"none", "plain", "call"}

\* MCPServer.start: self._running = True; asyncio.create_task(_message_loop())
TaskStart ==
    /\ \E l \in Tasks :
          /\ taskPc[l] = "none"
          /\ \A k \in Tasks : k < l => taskPc[k] # "none"
          /\ taskPc' = [taskPc EXCEPT ![l] = "top"]
    /\ running' = TRUE
    /\ UNCHANGED <<initialized, regVars, pc, cur, resp, execTool, execArgs,
                   executed, handed, wasInit, toolOut, curCall, httpVars, rlVars,
                   reqVars, stdioVars, codecVars, mgrVars, apiVars, valVars,
                   taskCur>>

\* MCPServer.stop: self._running = False
TaskStop ==
    /\ running
    /\ running' = FALSE
    /\ UNCHANGED <<initialized, regVars, pc, cur, resp, execTool, execArgs,
                   executed, handed, wasInit, toolOut, curCall, httpVars, rlVars,
                   reqVars, stdioVars, codecVars, mgrVars, apiVars, valVars,
                   taskVars>>

\* _message_loop of task l: while self._running, up to the await of
\* receive_message
TaskTop(l) ==
    /\ taskPc[l] = "top"
    /\ taskPc' = [taskPc EXCEPT ![l] = IF running THEN "recv" ELSE "done"]
    /\ taskCur' = [taskCur EXCEPT ![l] = ""]
    /\ UNCHANGED <<baseVars, codecVars, mgrVars, apiVars, valVars>>

\* _message_loop of task l: receive_message returns m; handle_request runs
\* to its return and the response is sent, or it reaches the await of the
\* tool's execute
TaskReceive(l, m) ==
    /\ taskPc[l] = "recv"
    /\ taskPc' = [taskPc EXCEPT ![l] = IF m = "call" THEN "exec" ELSE "top"]
    /\ taskCur' = [taskCur EXCEPT ![l] = IF m = "none" THEN "" ELSE m]
    /\ UNCHANGED <<baseVars, codecVars, mgrVars, apiVars, valVars>>

\* _message_loop of task l: the tool's execute ends, handle_request returns
\* and the response is sent
TaskToolReturn(l) ==
    /\ taskPc[l] = "exec"
    /\ taskPc' = [taskPc EXCEPT ![l] = "top"]
    /\ UNCHANGED <<baseVars, codecVars, mgrVars, apiVars, valVars, taskCur>>

\* start has not been called
TaskIdle ==
    /\ taskPc = [l \in Tasks |-> "none"]
    /\ taskCur = [l \in Tasks |-> ""]

\* ------------------------------------------------- specifications
\* HTTPTransport.__init__
HttpIdle ==
    /\ curCall = 0
    /\ httpRunning = FALSE
    /\ serving = FALSE
    /\ queue = <<>>
    /\ futures = [k \in Keys |-> 0]
    /\ futState = [c \in Calls |-> "none"]
    /\ futResult = [c \in Calls |-> <<>>]
    /\ callPc = [c \in Calls |-> "idle"]
    /\ callReq = [c \in Calls |-> <<>>]
    /\ callOut = [c \in Calls |-> NoOut]

\* MCPServer.__init__ and ToolsManager.__init__
ServerInit ==
    /\ initialized = FALSE
    /\ tools = <<>>
    /\ regError = ""
    /\ running = FALSE
    /\ pc = "off"
    /\ cur = <<>>
    /\ resp = <<>>
    /\ execTool = <<>>
    /\ execArgs = [kind |-> "dict", keys |-> {}]
    /\ executed = {}
    /\ handed = <<>>
    /\ wasInit = FALSE
    /\ toolOut = <<>>

Init ==
    /\ ServerInit
    /\ HttpIdle
    /\ LimiterIdle
    /\ RequestIdle
    /\ StdioIdle
    /\ CodecIdle
    /\ RegistryIdle
    /\ ApiIdle
    /\ ValidateIdle
    /\ TaskIdle

Next ==
    \/ \E t \in ToolObjs : RegisterTool(t)
    \/ \E n \in ToolNames : UnregisterTool(n)
    \/ Start
    \/ Stop
    \/ LoopTop
    \/ LoopReceive
    \/ LoopHandle
    \/ ToolReturn
    \/ LoopSend

Spec == Init /\ [][Next]_vars

\* The HTTP server script before start: the transport and the server are
\* constructed and EchoTool is registered.  The session flag outlives stop
\* and start, so a transport that starts idle meets it in either state.
HttpInit ==
    /\ initialized \in BOOLEAN
    /\ tools = <<[name |-> "echo", tool |-> "echo1"]>>
    /\ regError = ""
    /\ running = FALSE
    /\ pc = "off"
    /\ cur = <<>>
    /\ resp = <<>>
    /\ execTool = <<>>
    /\ execArgs = [kind |-> "dict", keys |-> {}]
    /\ executed = {}
    /\ handed = <<>>
    /\ wasInit = FALSE
    /\ toolOut = <<>>
    /\ HttpIdle
    /\ LimiterIdle
    /\ RequestIdle
    /\ StdioIdle
    /\ CodecIdle
    /\ RegistryIdle
    /\ ApiIdle
    /\ ValidateIdle
    /\ TaskIdle

HttpNext ==
    \/ HttpStart
    \/ HttpStop
    \/ ServerExit
    \/ LoopTop
    \/ HttpReceive
    \/ LoopHandle
    \/ ToolReturn
    \/ HttpSend
    \/ \E c \in Calls, e \in HttpEnvelopes : Post(c, e)
    \/ \E c \in Calls, b \in Bodies : PostMalformed(c, b)
    \/ \E c \in Calls : Return(c)
    \/ \E c \in Calls : Timeout(c)
    \/ \E c \in Calls : Cancelled(c)

HttpSpec == HttpInit /\ [][HttpNext]_vars

\* The loop task is scheduled whenever it can run and a tool's execute ends.
HttpFairness ==
    /\ WF_vars(LoopTop)
    /\ WF_vars(HttpReceive)
    /\ WF_vars(LoopHandle)
    /\ WF_vars(ToolReturn)
    /\ WF_vars(HttpSend)

HttpLiveSpec == HttpInit /\ [][HttpNext]_vars /\ HttpFairness

\* One rate limiter and the acquire calls of its callers.
LimiterInit ==
    /\ ServerInit
    /\ HttpIdle
    /\ LimiterIdle
    /\ RequestIdle
    /\ StdioIdle
    /\ CodecIdle
    /\ RegistryIdle
    /\ ApiIdle
    /\ ValidateIdle
    /\ TaskIdle

LimiterNext ==
    \/ Tick
    \/ \E c \in Callers : AcquireEnter(c)
    \/ \E c \in Callers : AcquireWake(c)

LimiterSpec == LimiterInit /\ [][LimiterNext]_vars

\* One _make_request of a client, after the acquire calls of earlier
\* requests of the same client.
RequestInit ==
    /\ ServerInit
    /\ HttpIdle
    /\ LimiterIdle
    /\ RequestIdle
    /\ StdioIdle
    /\ CodecIdle
    /\ RegistryIdle
    /\ ApiIdle
    /\ ValidateIdle
    /\ TaskIdle

RequestNext ==
    \/ Tick
    \/ \E c \in 1..(ReqCaller - 1) : AcquireEnter(c)
    \/ MakeRequest
    \/ RequestAcquired
    \/ \E o \in Outcomes : Attempt(o)
    \/ NextAttempt

RequestSpec == RequestInit /\ [][RequestNext]_vars

\* The stdio server script before start: the transport and the server are
\* constructed and EchoTool is registered.
StdioInit ==
    /\ initialized = FALSE
    /\ tools = <<[name |-> "echo", tool |-> "echo1"]>>
    /\ regError = ""
    /\ running = FALSE
    /\ pc = "off"
    /\ cur = <<>>
    /\ resp = <<>>
    /\ execTool = <<>>
    /\ execArgs = [kind |-> "dict", keys |-> {}]
    /\ executed = {}
    /\ handed = <<>>
    /\ wasInit = FALSE
    /\ toolOut = <<>>
    /\ HttpIdle
    /\ LimiterIdle
    /\ RequestIdle
    /\ StdioIdle
    /\ CodecIdle
    /\ RegistryIdle
    /\ ApiIdle
    /\ ValidateIdle
    /\ TaskIdle

StdioNext ==
    \/ StdioStart
    \/ StdioStop
    \/ LoopTop
    \/ StdioReceive
    \/ \E l \in Lines \cup {EofRead} : StdioReadLine(l)
    \/ LoopHandle
    \/ ToolReturn
    \/ StdioSend

StdioSpec == StdioInit /\ [][StdioNext]_vars

\* The loop task is scheduled whenever it can run, a tool's execute ends,
\* and readline returns at once at the end of the stream.
StdioFairness ==
    /\ WF_vars(LoopTop)
    /\ WF_vars(StdioReceive)
    /\ WF_vars(StdioReadEof)
    /\ WF_vars(LoopHandle)
    /\ WF_vars(ToolReturn)
    /\ WF_vars(StdioSend)

StdioLiveSpec == StdioInit /\ [][StdioNext]_vars /\ StdioFairness

\* One message handed to the codec: a request to encode, the dict of a
\* request to decode, or a response to encode.
CodecInit ==
    /\ initialized = FALSE
    /\ tools = <<>>
    /\ regError = ""
    /\ running = FALSE
    /\ pc = "off"
    /\ cur = <<>>
    /\ resp = <<>>
    /\ execTool = <<>>
    /\ execArgs = [kind |-> "dict", keys |-> {}]
    /\ executed = {}
    /\ handed = <<>>
    /\ wasInit = FALSE
    /\ toolOut = <<>>
    /\ HttpIdle
    /\ LimiterIdle
    /\ RequestIdle
    /\ StdioIdle
    /\ RegistryIdle
    /\ ApiIdle
    /\ ValidateIdle
    /\ TaskIdle
    /\ reqBack = DefaultRequest
    /\ wireBack = NoWire
    /\ respWire = NoRespWire
    /\ \/ /\ codecPc = "request"
          /\ reqObj \in Envelopes
          /\ reqWire = NoWire
          /\ respObj = Success(NoResult, NoId)
       \/ /\ codecPc = "wire"
          /\ reqObj = DefaultRequest
          /\ reqWire \in WireDicts
          /\ respObj = Success(NoResult, NoId)
       \/ /\ codecPc = "response"
          /\ reqObj = DefaultRequest
          /\ reqWire = NoWire
          /\ respObj \in Responses

CodecNext ==
    \/ EncodeRequest
    \/ DecodeEncoded
    \/ DecodeWire
    \/ EncodeDecoded
    \/ EncodeResponse

CodecSpec == CodecInit /\ [][CodecNext]_vars

\* ToolsManager.__init__, then any calls of its methods
RegistryInit ==
    /\ initialized = FALSE
    /\ tools = <<>>
    /\ regError = ""
    /\ running = FALSE
    /\ pc = "off"
    /\ cur = <<>>
    /\ resp = <<>>
    /\ execTool = <<>>
    /\ execArgs = [kind |-> "dict", keys |-> {}]
    /\ executed = {}
    /\ handed = <<>>
    /\ wasInit = FALSE
    /\ toolOut = <<>>
    /\ HttpIdle
    /\ LimiterIdle
    /\ RequestIdle
    /\ StdioIdle
    /\ CodecIdle
    /\ RegistryIdle
    /\ ApiIdle
    /\ ValidateIdle
    /\ TaskIdle

RegistryNext ==
    \/ \E t \in ToolObjs : RegisterTool(t)
    \/ \E n \in ToolNames : UnregisterTool(n)
    \/ \E n \in ToolNames : GetTool(n)
    \/ \E n \in ToolNames : HasTool(n)
    \/ \E n \in ToolNames, a \in Arguments : ExecuteTool(n, a)

RegistrySpec == RegistryInit /\ [][RegistryNext]_vars

\* One transport is constructed, with no server; its methods are called in
\* any order and, for the HTTP transport, POSTs arrive while it serves.
TransportInit ==
    /\ ServerInit
    /\ HttpIdle
    /\ LimiterIdle
    /\ RequestIdle
    /\ StdioIdle
    /\ CodecIdle
    /\ RegistryIdle
    /\ apiCall \in {[NoApi EXCEPT !.tr = t] : t \in {"stdio", "http"}}
    /\ ValidateIdle
    /\ TaskIdle

TransportNext ==
    \/ DirectStdioStart
    \/ DirectStdioStop
    \/ \E m \in DirectResponses : DirectStdioSend(m)
    \/ DirectStdioReceive
    \/ DirectHttpStart
    \/ DirectHttpStop
    \/ \E m \in DirectResponses : DirectHttpSend(m)
    \/ DirectHttpReceive
    \/ \E c \in Calls, e \in HttpEnvelopes : DirectPost(c, e)
    \/ DirectServerExit

TransportSpec == TransportInit /\ [][TransportNext]_vars

\* one call of _validate_arguments, on any arguments dict and any schema
ValidateInit ==
    /\ ServerInit
    /\ HttpIdle
    /\ LimiterIdle
    /\ RequestIdle
    /\ StdioIdle
    /\ CodecIdle
    /\ RegistryIdle
    /\ ApiIdle
    /\ valPc = "call"
    /\ valKeys \in SUBSET ArgKeys
    /\ valSchema \in Schemas
    /\ valOut = <<>>
    /\ TaskIdle

ValidateNext == Validate

ValidateSpec == ValidateInit /\ [][ValidateNext]_vars

\* MCPServer.__init__, then start and stop in any order
RestartInit ==
    /\ ServerInit
    /\ HttpIdle
    /\ LimiterIdle
    /\ RequestIdle
    /\ StdioIdle
    /\ CodecIdle
    /\ RegistryIdle
    /\ ApiIdle
    /\ ValidateIdle
    /\ TaskIdle

RestartNext ==
    \/ TaskStart
    \/ TaskStop
    \/ \E l \in Tasks : TaskTop(l)
    \/ \E l \in Tasks, m \in Received : TaskReceive(l, m)
    \/ \E l \in Tasks : TaskToolReturn(l)

RestartSpec == RestartInit /\ [][RestartNext]_vars

\* ================================================================ claims
\* the request of the current loop iteration is a call: tag "2.0" and an
\* identifier
IsCall == cur # <<>> /\ cur[1].jsonrpc = "2.0" /\ cur[1].id # NoId

NotInitializedError(id) ==
    CreateError(INTERNAL_ERROR, <<"Internal error: ", "Server not initialized">>, id)

\* C1: every request with tag "2.0" and an identifier that the loop received
\* has, when its iteration ends, had exactly one response handed to send, and
\* that response carries the request's identifier; none is handed earlier
\* than the send step and never more than one.
C1_ExactlyOneResponse ==
    /\ Len(handed) <= 1
    /\ pc \in {"handle", "exec", "send"} => handed = <<>>
    /\ pc = "top" /\ IsCall => Len(handed) = 1 /\ handed[1].id = cur[1].id
    /\ pc = "send" /\ IsCall => Len(resp) = 1 /\ resp[1].id = cur[1].id

C1_Witness ==
    /\ pc = "top"
    /\ IsCall
    /\ cur[1].method = "unknown_method"
    /\ ~initialized
    /\ Len(handed) = 1
    /\ handed[1].id = cur[1].id

\* C2: an envelope without identifier, whatever its method, parameters or
\* protocol tag, makes handle_request return no response and the loop send
\* nothing.
C2_NotificationNoResponse ==
    cur # <<>> /\ cur[1].id = NoId => resp = <<>> /\ handed = <<>>

\* C3: a tools/list or tools/call request (tag "2.0", with identifier)
\* handled while the session is not initialized gets the internal-error
\* response "Server not initialized" and no tool is executed; handled while
\* it is initialized, tools/list returns a result and no error, and
\* tools/call on a registered tool reaches the tool's execute and returns a
\* result and no error.
C3_InitGate ==
    /\ [](pc \in {"send", "top"} /\ IsCall /\ ~wasInit
            /\ cur[1].method \in {"tools/list", "tools/call"}
          => /\ resp = <<NotInitializedError(cur[1].id)>>
             /\ executed = {}
             /\ toolOut = <<>>)
    /\ [](pc \in {"send", "top"} /\ IsCall /\ wasInit
            /\ cur[1].method = "tools/list"
          => /\ Len(resp) = 1
             /\ resp[1].error = NoError
             /\ resp[1].result.kind = "tools")
    /\ [](pc \in {"send", "top"} /\ IsCall /\ toolOut # <<>>
          => /\ wasInit
             /\ cur[1].method = "tools/call"
             /\ Len(resp) = 1
             /\ resp[1].error = NoError
             /\ resp[1].result.kind = "tool")
    /\ [][pc = "handle" /\ pc' # "handle" /\ IsCall /\ initialized
            /\ cur[1].method = "tools/call"
            /\ has_tool(tools, cur[1].params.name)
          => /\ pc' = "exec"
             /\ execTool' = <<get_tool(tools, cur[1].params.name)>>]_vars

C3_Witness ==
    /\ pc = "send"
    /\ IsCall
    /\ ~wasInit
    /\ cur[1].method = "tools/call"
    /\ has_tool(tools, cur[1].params.name)
    /\ resp = <<NotInitializedError(cur[1].id)>>

\* C4 as claimed: while uninitialized, a request with an identifier naming
\* any method other than initialize gets the internal-error response "Server
\* not initialized".
C4_Original ==
    pc = "send" /\ IsCall /\ ~wasInit /\ cur[1].method # "initialize"
    => resp = <<NotInitializedError(cur[1].id)>>

\* C4 amended: while uninitialized, a request with an identifier naming
\* tools/list or tools/call gets the internal-error response "Server not
\* initialized" (-32603); one naming a method that is not in the dispatch
\* table gets method-not-found (-32601), in either session state.
C4_Amended ==
    /\ pc = "send" /\ IsCall /\ ~wasInit
         /\ cur[1].method \in {"tools/list", "tools/call"}
       => /\ resp = <<NotInitializedError(cur[1].id)>>
          /\ resp[1].error.code = -32603
    /\ pc = "send" /\ IsCall /\ cur[1].method \notin Handlers
       => /\ resp = <<CreateError(METHOD_NOT_FOUND,
                                  <<"Method not found: ", cur[1].method>>,
                                  cur[1].id)>>
          /\ resp[1].error.code = -32601

C4_Witness ==
    /\ pc = "send"
    /\ IsCall
    /\ ~wasInit
    /\ ~initialized
    /\ cur[1].method = "unknown_method"
    /\ resp[1].error.code = METHOD_NOT_FOUND

\* the current request is an initialize call with well-formed parameters
IsWellFormedInitialize ==
    /\ IsCall
    /\ cur[1].method = "initialize"
    /\ cur[1].params.present
    /\ cur[1].params.init

\* C5: the session starts uninitialized; once initialized no step of any
\* kind makes it uninitialized again; and a well-formed initialize call
\* handled on an initialized session returns a success response.
C5_InitializedTerminal ==
    /\ ~initialized
    /\ [][initialized => initialized']_vars
    /\ [](pc \in {"send", "top"} /\ IsWellFormedInitialize
          => /\ initialized
             /\ resp = <<Success(InitializeResult, cur[1].id)>>)

C5_Witness ==
    /\ pc = "send"
    /\ IsWellFormedInitialize
    /\ wasInit
    /\ initialized
    /\ resp = <<Success(InitializeResult, cur[1].id)>>

C7_UnknownToolIsError ==
    [][pc = "handle" /\ pc' # "handle" /\ IsCall /\ initialized
         /\ cur[1].method = "tools/call"
         /\ cur[1].params.name \notin {NoName, ""}
         /\ ~has_tool(tools, cur[1].params.name)
       => /\ pc' = "send"
          /\ resp' = <<CreateError(INTERNAL_ERROR,
                                   <<"Internal error: ", "Tool not found: ",
                                     cur[1].params.name>>,
                                   cur[1].id)>>
          /\ resp'[1].result = NoResult
          /\ executed' = {}
          /\ execTool' = <<>>
          /\ toolOut' = <<>>]_vars

C7_Witness ==
    /\ pc = "send"
    /\ IsCall
    /\ wasInit
    /\ cur[1].method = "tools/call"
    /\ cur[1].params.name = "nonexistent"
    /\ resp[1].error.code = INTERNAL_ERROR
    /\ resp[1].result = NoResult
    /\ executed = {}

\* C8: under the HTTP transport a response is delivered only to the call
\* whose own request produced it, whatever identifiers the concurrent calls
\* carry: a Future is only ever completed with, and a call only ever
\* returns, the response made for that call's request; and a response sent
\* while its own call is still waiting completes that call's Future.
C8_NeverMisrouted ==
    /\ [](\A c \in Calls :
            /\ futState[c] = "done" => futResult[c].origin = c
            /\ callOut[c].kind = "response" => callOut[c].origin = c)
    /\ [][pc = "send" /\ pc' = "top" /\ resp # <<>> /\ httpRunning
            /\ curCall # 0
            /\ callPc[curCall] = "waiting"
            /\ futState[curCall] = "pending"
          => futState'[curCall] = "done"]_vars

\* C9: a call that timed out returned the internal-error response "Request
\* timeout" with its request's identifier, its Future is no longer in the
\* table, and when the loop afterwards sends the response made for its
\* request, no Future is completed and nothing is raised.
C9_TimedOutResponseIgnored ==
    /\ [](\A c \in Calls :
            callOut[c].kind = "timeout"
            => /\ callOut[c].resp =
                     <<CreateError(INTERNAL_ERROR, <<"Request timeout">>,
                                   callReq[c][1].id)>>
               /\ \A k \in Keys : futures[k] # c)
    /\ [][pc = "send" /\ pc' = "top" /\ resp # <<>> /\ curCall # 0
            /\ callOut[curCall].kind = "timeout"
          => /\ futState' = futState
             /\ futResult' = futResult]_vars

\* no name occurs twice among the keys of the registry
UniqueNames ==
    \A i, j \in 1..Len(tools) : tools[i].name = tools[j].name => i = j

\* C10: registering a tool whose name is already in the registry raises
\* "already registered" and leaves the registry as it was, so the tool
\* registered first stays the one get_tool and has_tool resolve; every name
\* is the key of at most one item, whose tool bears that name.
C10_DuplicateRegistrationFails ==
    /\ [](UniqueNames /\ \A i \in 1..Len(tools) : ToolName(tools[i].tool) = tools[i].name)
    /\ [][\A t \in ToolObjs :
            RegisterTool(t) /\ has_tool(tools, ToolName(t))
            => /\ regError' = "already registered"
               /\ tools' = tools
               /\ has_tool(tools', ToolName(t))
               /\ get_tool(tools', ToolName(t)) = get_tool(tools, ToolName(t))]_vars

C10_Witness ==
    /\ regError = "already registered"
    /\ has_tool(tools, "echo")
    /\ get_tool(tools, "echo") = "echo1"
    /\ Len(tools) = 1

\* C11: whatever the interleaving of the acquire calls of one rate limiter,
\* callers that slept included, at most max_requests calls are admitted
\* (their acquire returns) within any trailing window of time_window: the
\* window that ends at any admission holds at most max_requests admissions.
C11_WindowNeverExceeded ==
    \A c \in Callers :
        admitAt[c] >= 0 =>
            AdmittedIn(admitAt[c] - time_window, admitAt[c]) <= max_requests

\* C12: an acquire that starts when max_requests calls were admitted within
\* the window ending now waits, and waits oldest + time_window - now, a
\* nonzero time, for the oldest timestamp it kept; an acquire that keeps
\* fewer than max_requests timestamps proceeds at once.
C12_WaitsForOldest ==
    \A c \in Callers :
        acqPc[c] # "idle" =>
            /\ acqSeen[c].admitted >= max_requests =>
                  /\ acqSeen[c].wait > 0
                  /\ acqSeen[c].wait =
                        acqSeen[c].oldest + time_window - acqNow[c]
            /\ acqSeen[c].kept < max_requests =>
                  /\ acqSeen[c].wait = 0
                  /\ admitAt[c] = acqNow[c]

\* an outcome that is a connection failure or a timeout
IsTransient(o) == o.kind \in {"timeout", "connect"}

\* all outcomes before position k are connection failures or timeouts
TransientBefore(k) == \A i \in 1..(k - 1) : IsTransient(outcomes[i])

\* C13: with retries = 3, while only connection failures and timeouts came
\* the sleeps between the attempts are 1, 2, 4; a success that follows them
\* on attempt k returns after exactly k attempts; four such failures end the
\* call with the timeout or connection failure of the last one; and no call
\* makes more than retries + 1 attempts, whatever the outcomes.
C13_RetryWithBackoff ==
    /\ Len(outcomes) <= retries + 1
    /\ \A k \in 1..Len(outcomes) :
          TransientBefore(k + 1) /\ k <= Len(delays) => delays[k] = 2 ^ (k - 1)
    /\ \A k \in 1..Len(outcomes) :
          /\ TransientBefore(k)
          /\ outcomes[k].kind = "response"
          /\ outcomes[k].status = 200
          => /\ Len(outcomes) = k
             /\ reqPc = "returned"
             /\ reqResult = "returned"
             /\ Len(delays) = k - 1
    /\ Len(outcomes) = retries + 1 /\ TransientBefore(retries + 2)
          => /\ reqPc = "failed"
             /\ reqResult = IF outcomes[retries + 1].kind = "timeout"
                            THEN "timed_out" ELSE "unable_to_connect"
             /\ delays = <<1, 2, 4>>

C13_Witness ==
    /\ Len(outcomes) = 4
    /\ TransientBefore(4)
    /\ outcomes[1].kind = "connect"
    /\ outcomes[2].kind = "timeout"
    /\ outcomes[4].status = 200
    /\ reqPc = "returned"
    /\ delays = <<1, 2, 4>>

\* C14: a 401 response on any attempt ends the call at once with the
\* authentication failure: it is the last attempt made and no sleep follows.
C14_AuthFailsFast ==
    \A k \in 1..Len(outcomes) :
        outcomes[k].status = 401
        => /\ Len(outcomes) = k
           /\ reqPc = "failed"
           /\ reqResult = "authentication_failed"
           /\ Len(delays) = k - 1

C14_Witness ==
    /\ Len(outcomes) = 3
    /\ outcomes[1].kind = "timeout"
    /\ outcomes[2].status = 429
    /\ outcomes[3].status = 401
    /\ reqPc = "failed"
    /\ reqResult = "authentication_failed"

\* C15: a 429 response on an attempt that is not the last makes the call
\* sleep (the Retry-After value when the header is present, else 60) and go
\* on to the next attempt of the same budget; a 429 on the last attempt ends
\* the call with the rate-limit-exceeded failure.
C15_RateLimitedRetry ==
    \A k \in 1..Len(outcomes) :
        outcomes[k].status = 429
        => IF k <= retries
           THEN /\ Len(delays) >= k
                /\ reqResult \notin {"ValueError: invalid literal for int()"}
                /\ outcomes[k].retry_after = NoHeader => delays[k] = 60
                /\ outcomes[k].retry_after # NoHeader
                   /\ IntOf(outcomes[k].retry_after[1]) # <<>>
                      => delays[k] = IntOf(outcomes[k].retry_after[1])[1]
                /\ Len(outcomes) = k
                      => \/ reqPc = "sleep" /\ attempt = k - 1
                         \/ reqPc = "request" /\ attempt = k
           ELSE /\ reqPc = "failed"
                /\ reqResult = "rate_limit_exceeded"

\* C16 as claimed: the failure of a response with an error status other than
\* 401 and 429 reaches the caller only when retries + 1 attempts were made.
C16_Original ==
    reqResult = "HTTPStatusError" => Len(outcomes) = retries + 1

\* C16 amended: a response with an error status other than 401 and 429 ends
\* the call at once with the status failure, on whichever attempt it comes:
\* it is the last attempt made and no sleep follows it.
C16_Amended ==
    \A k \in 1..Len(outcomes) :
        /\ outcomes[k].kind = "response"
        /\ outcomes[k].status >= 400
        /\ outcomes[k].status \notin {401, 429}
        => /\ Len(outcomes) = k
           /\ reqPc = "failed"
           /\ reqResult = "HTTPStatusError"
           /\ Len(delays) = k - 1

C16_Witness ==
    /\ Len(outcomes) = 1
    /\ outcomes[1].status = 500
    /\ reqPc = "failed"
    /\ reqResult = "HTTPStatusError"
    /\ delays = <<>>

\* a line that is not empty and does not decode as a request
IsUndecodable(l) == l.kind \in {"badutf8", "nonobject", "badjson"}

\* the last entry of the output answers the line read last with a parse
\* error whose identifier is id, and it is the only entry for that line
ParseErrorWritten(id) ==
    /\ stdout # <<>>
    /\ stdout[Len(stdout)].line = lineNo
    /\ stdout[Len(stdout)].resp.error.code = PARSE_ERROR
    /\ stdout[Len(stdout)].resp.id = id
    /\ \A i \in 1..Len(stdout) : stdout[i].line = lineNo => i = Len(stdout)

\* C17: a non-empty line that does not decode as a request, read by a
\* running stdio transport, is answered inside receive_message by exactly
\* one parse-error response (-32700) with the identifier recovered from the
\* text; receive_message returns no request, nothing is dispatched and the
\* server loop hands no response of its own to the transport.
C17_ParseErrorInsideReceive ==
    IsUndecodable(lastRead.line) /\ lastRead.running
    => /\ ParseErrorWritten(RecoverId(lastRead.line))
       /\ cur = <<>>
       /\ pc \in {"top", "recv", "off"}
       /\ handed = <<>>
       /\ executed = {}

\* C18 as claimed: a parse-error response is written only with a recovered
\* identifier; malformed input without one gets no response at all.
C18_Original ==
    \A i \in 1..Len(stdout) :
        stdout[i].resp.error.code = PARSE_ERROR => stdout[i].resp.id # NoId

\* C18 amended: a line of text that is not a request, read by a running
\* stdio transport, always gets a parse-error response: with the recovered
\* identifier, and with a null identifier when none is recovered.
C18_Amended ==
    lastRead.line.kind \in {"badjson", "nonobject"} /\ lastRead.running
    => /\ ParseErrorWritten(RecoverId(lastRead.line))
       /\ lastRead.line.strId = <<>> /\ lastRead.line.numId = <<>>
          => ParseErrorWritten(NoId)

C18_Witness ==
    /\ lastRead.line.kind = "badjson"
    /\ lastRead.line.strId = <<>>
    /\ lastRead.line.numId = <<>>
    /\ lastRead.running
    /\ ParseErrorWritten(NoId)

\* C19: an empty line gives the loop no request and the loop polls again;
\* after the end of the stream the loop eventually stops polling: from some
\* point on it no longer waits in readline on the ended stream.
C19_EofStopsPolling ==
    /\ [](lastRead.line.kind = "empty" => cur = <<>> /\ pc \in {"top", "recv", "off"})
    /\ <>[](eof => pc # "reading")

\* C20: the output holds the responses, parse-error responses included, in
\* the order in which their lines were read, at most one per line, and a
\* line is read only while no request is in dispatch and no response of the
\* loop waits to be sent.
C20_ResponsesInReadOrder ==
    /\ [](\A i, j \in 1..Len(stdout) : i < j => stdout[i].line < stdout[j].line)
    /\ [](pc = "reading" => cur = <<>> /\ resp = <<>> /\ execTool = <<>>)
    /\ [][lineNo' # lineNo
            => pc = "reading" /\ cur = <<>> /\ resp = <<>> /\ execTool = <<>>]_vars

C20_Witness ==
    /\ Len(stdout) = 3
    /\ stdout[1].line = 1
    /\ stdout[1].resp.error = NoError
    /\ stdout[2].line = 2
    /\ stdout[2].resp.error.code = PARSE_ERROR
    /\ stdout[3].line = 3
    /\ stdout[3].resp.result.kind = "tool"

\* the request of the current loop iteration, handled or being handled
Handling == cur # <<>> /\ pc \in {"exec", "send"}

\* what handle_request gave for it is an error response with this code and
\* the request's identifier
AnsweredWithError(code) ==
    /\ Len(resp) = 1
    /\ resp[1].error.code = code
    /\ resp[1].result = NoResult
    /\ resp[1].id = cur[1].id

\* C24: an envelope with tag "2.0" whose method is not initialize,
\* tools/list or tools/call gets the method-not-found response (-32601) with
\* its identifier when it has one and no response when it has none; either
\* way no tool runs and the session flag and the registry stay as they were.
C24_UnknownMethod ==
    /\ [](Handling /\ cur[1].jsonrpc = "2.0" /\ cur[1].method \notin Handlers
          => /\ pc = "send"
             /\ executed = {}
             /\ initialized = wasInit
             /\ IF cur[1].id # NoId
                THEN AnsweredWithError(METHOD_NOT_FOUND)
                ELSE resp = <<>>)
    /\ [][LoopHandle /\ cur[1].jsonrpc = "2.0" /\ cur[1].method \notin Handlers
            => initialized' = initialized /\ tools' = tools]_vars

C24_Witness ==
    /\ pc = "send"
    /\ cur # <<>>
    /\ cur[1].jsonrpc = "2.0"
    /\ cur[1].method = "notifications/initialized"
    /\ cur[1].id # NoId
    /\ initialized
    /\ AnsweredWithError(METHOD_NOT_FOUND)

\* C25: a request with an identifier whose tag is not "2.0" gets the
\* invalid-request response (-32600) with its identifier whatever its
\* method; no handler and no tool runs and the session flag stays as it was.
C25_WrongTagRejected ==
    /\ [](Handling /\ cur[1].jsonrpc # "2.0" /\ cur[1].id # NoId
          => /\ pc = "send"
             /\ executed = {}
             /\ initialized = wasInit
             /\ AnsweredWithError(INVALID_REQUEST))
    /\ [][LoopHandle /\ cur[1].jsonrpc # "2.0" /\ cur[1].id # NoId
            => initialized' = initialized /\ tools' = tools]_vars

C25_Witness ==
    /\ pc = "send"
    /\ cur # <<>>
    /\ cur[1].jsonrpc = "1.0"
    /\ cur[1].method = "initialize"
    /\ cur[1].params.present
    /\ cur[1].params.init
    /\ cur[1].id # NoId
    /\ ~initialized
    /\ AnsweredWithError(INVALID_REQUEST)

\* C26: handling an envelope without identifier leaves the session flag and
\* the registry as they were and starts no tool; the flag goes from false to
\* true only when an initialize request that has an identifier is handled.
C26_NotificationsChangeNothing ==
    /\ [](Handling /\ cur[1].id = NoId => pc = "send" /\ executed = {})
    /\ [][LoopHandle /\ cur[1].id = NoId
            => initialized' = initialized /\ tools' = tools /\ pc' # "exec"]_vars
    /\ [][~initialized /\ initialized'
            => /\ pc = "handle"
               /\ cur[1].method = "initialize"
               /\ cur[1].id # NoId]_vars

C26_Witness ==
    /\ pc = "send"
    /\ cur # <<>>
    /\ cur[1].jsonrpc = "2.0"
    /\ cur[1].method = "initialize"
    /\ cur[1].params.present
    /\ cur[1].params.init
    /\ cur[1].id = NoId
    /\ ~initialized

\* C27: on an initialized session a tools/call request (tag "2.0", with
\* identifier) whose parameters hold no name, or an empty one, gets the
\* invalid-params response (-32602) and no tool is executed.
C27_MissingNameInvalidParams ==
    /\ Handling
    /\ cur[1].jsonrpc = "2.0"
    /\ cur[1].id # NoId
    /\ cur[1].method = "tools/call"
    /\ cur[1].params.name \in {NoName, ""}
    /\ wasInit
    => /\ pc = "send"
       /\ executed = {}
       /\ AnsweredWithError(INVALID_PARAMS)

\* C28: a handler that raises for a request with an identifier gives that
\* request the internal-error response; the loop task ends only once the
\* server was stopped: after every response, faults included, it goes back
\* to the top of the loop and, still running, on to the next receive.
C28_FaultsDoNotStopLoop ==
    /\ [](/\ Handling
          /\ pc = "send"
          /\ cur[1].jsonrpc = "2.0"
          /\ cur[1].id # NoId
          /\ cur[1].method \in Handlers
          /\ executed = {}
          /\ HandleRequest(cur[1], wasInit, tools).h.kind = "raise"
          => AnsweredWithError(INTERNAL_ERROR))
    /\ [][pc # "off" /\ pc' = "off" => pc = "top" /\ ~running]_vars
    /\ [][pc = "send" /\ pc' # pc => pc' = "top"]_vars
    /\ [][pc = "top" /\ running /\ pc' # pc => pc' = "recv"]_vars

C28_Witness ==
    /\ pc = "top"
    /\ running
    /\ cur # <<>>
    /\ cur[1].jsonrpc = "2.0"
    /\ cur[1].id # NoId
    /\ cur[1].method = "tools/call"
    /\ cur[1].params.name = "nonexistent"
    /\ initialized
    /\ Len(handed) = 1
    /\ handed[1].error.code = INTERNAL_ERROR
    /\ handed[1].id = cur[1].id

\* C21: when stop of the HTTP transport returns, whatever the state it was
\* called in, no Future is pending any more, the table of Futures is empty
\* and the request queue is empty.
C21_StopCleansUp ==
    [][HttpStop
         => /\ \A c \in Calls : futState'[c] # "pending"
            /\ futures' = [k \in Keys |-> 0]
            /\ queue' = <<>>]_vars

\* C22: a POST whose envelope has no identifier is queued for the loop and
\* answered 204 at once: the call has returned with no content, it made no
\* Future and holds no key of the table, whether or not the loop has taken
\* its request from the queue.
C22_NotificationNoWait ==
    /\ [](\A c \in Calls :
            callReq[c] # <<>> /\ callReq[c][1].id = NoId
            => /\ callPc[c] = "returned"
               /\ callOut[c].kind = "no_content"
               /\ callOut[c].resp = <<>>
               /\ futState[c] = "none"
               /\ \A k \in Keys : futures[k] # c)
    /\ [][\A c \in Calls :
            callReq[c] = <<>> /\ callReq'[c] # <<>> /\ callReq'[c][1].id = NoId
            => /\ queue' = Append(queue, [req |-> callReq'[c][1], call |-> c])
               /\ futures' = futures
               /\ futState' = futState]_vars

C22_Witness ==
    /\ callReq[1] # <<>>
    /\ callReq[1][1].id = NoId
    /\ callOut[1].kind = "no_content"
    /\ queue # <<>>
    /\ queue[1].call = 1
    /\ pc = "recv"

\* C23: a POST whose body gives no request envelope (empty, not UTF-8, not
\* JSON, not an object) is answered at once with the parse-error response
\* (-32700); nothing is queued for it and no Future is made.
C23_MalformedBodyParseError ==
    \A c \in Calls :
        callOut[c].kind = "rejected"
        => /\ callOut[c].resp[1].error.code = PARSE_ERROR
           /\ callReq[c] = <<>>
           /\ futState[c] = "none"
           /\ \A i \in 1..Len(queue) : queue[i].call # c

\* C29: the encoded form of a response has the protocol tag and always has
\* the identifier key, holding the response's identifier (null when it has
\* none); it has "error" and no "result" when the response has an error
\* object and "result" and no "error" otherwise, so never both and never
\* neither.
C29_ResponseEncoding ==
    codecPc = "response_done"
    => /\ "jsonrpc" \in respWire.keys
       /\ respWire.jsonrpc = "2.0"
       /\ "id" \in respWire.keys
       /\ respWire.id = respObj.id
       /\ Cardinality(respWire.keys \cap {"result", "error"}) = 1
       /\ respObj.error # NoError
          => "error" \in respWire.keys /\ respWire.error = respObj.error
       /\ respObj.error = NoError
          => "result" \in respWire.keys /\ respWire.result = respObj.result

C29_Witness ==
    /\ codecPc = "response_done"
    /\ respObj.id = NoId
    /\ respObj.error # NoError
    /\ respObj.result # NoResult
    /\ respWire.keys = {"jsonrpc", "id", "error"}

\* a dict that carries the tag and the method, and whose parameters and
\* identifier are each either left out or given a value other than null
WellFormedWire(w) ==
    /\ {"jsonrpc", "method"} \subseteq w.keys
    /\ "params" \in w.keys => w.params # NoParams
    /\ "id" \in w.keys => w.id # NoId

\* C30: a request that is encoded and decoded again has the same tag,
\* method, parameters and identifier, absent parameters and an absent
\* identifier included; a well-formed dict that is decoded and encoded
\* again is the same dict, and any dict so treated still decodes to the
\* same request.
C30_RequestRoundTrip ==
    /\ codecPc = "request_done" => reqBack = reqObj
    /\ codecPc = "wire_done"
       => /\ RequestFromDict(wireBack) = reqObj
          /\ WellFormedWire(reqWire) => wireBack = reqWire

C30_Witness ==
    /\ codecPc = "request_done"
    /\ reqObj.params = EmptyParams
    /\ reqObj.id = NoId
    /\ reqWire.keys = {"jsonrpc", "method", "params"}
    /\ reqBack.params = EmptyParams

\* the registrations other than that of name n, in dict order
Others(d, n) == SelectSeq(d, LAMBDA it : it.name # n)

\* C31: unregister of a present name removes that name and leaves every
\* other registration as it was; unregister, get and execute on an absent
\* name fail with not-found, leave the registry unchanged and invoke no
\* tool; get and has never change the registry.
C31_RegistryFrames ==
    [][\A n \in ToolNames :
         /\ UnregisterTool(n) /\ has_tool(tools, n)
            => /\ regError' = ""
               /\ ~has_tool(tools', n)
               /\ Others(tools', n) = Others(tools, n)
               /\ tools' = Others(tools, n)
         /\ UnregisterTool(n) /\ ~has_tool(tools, n)
            => regError' = "not found" /\ tools' = tools
         /\ GetTool(n) /\ ~has_tool(tools, n)
            => /\ mgrCall'.error = "not found"
               /\ mgrCall'.tool = <<>>
               /\ mgrCall'.ran = <<>>
               /\ tools' = tools
         /\ (\E a \in Arguments : ExecuteTool(n, a)) /\ ~has_tool(tools, n)
            => /\ mgrCall'.error = "not found"
               /\ mgrCall'.ran = <<>>
               /\ mgrCall'.outcome = <<>>
               /\ tools' = tools
         /\ GetTool(n) \/ HasTool(n) => tools' = tools]_vars

C31_Witness ==
    /\ Len(tools) = 1
    /\ tools[1].name = "test_tool"
    /\ regError = ""
    /\ mgrCall.op = "execute"
    /\ mgrCall.name = "echo"
    /\ mgrCall.error = "not found"

\* C32: whatever registrations and unregistrations came before, tools/list
\* on an initialized server returns one schema for each registered tool and
\* no other, none twice, in the order of registration (a successful register
\* adds its tool at the end of the list, an unregister takes its name out
\* and keeps the order of the rest); with an empty registry the list is
\* empty.
C32_ListMatchesRegistry ==
    /\ [][pc = "handle" /\ pc' = "send" /\ cur[1].jsonrpc = "2.0"
          /\ cur[1].id # NoId /\ cur[1].method = "tools/list" /\ initialized
          => /\ Len(resp') = 1
             /\ resp'[1].id = cur[1].id
             /\ resp'[1].error = NoError
             /\ resp'[1].result.kind = "tools"
             /\ LET l == resp'[1].result.tools
                IN  /\ Len(l) = Len(tools)
                    /\ \A i \in 1..Len(l) : l[i] = tools[i].name
                    /\ \A i, j \in 1..Len(l) : l[i] = l[j] => i = j
                    /\ \A n \in ToolNames :
                          (\E i \in 1..Len(l) : l[i] = n) <=> has_tool(tools, n)]_vars
    /\ [][\A t \in ToolObjs :
            RegisterTool(t) /\ ~has_tool(tools, ToolName(t))
            => list_tools(tools') = Append(list_tools(tools), ToolName(t))]_vars
    /\ [][\A n \in ToolNames :
            UnregisterTool(n)
            => list_tools(tools') = SelectSeq(list_tools(tools), LAMBDA x : x # n)]_vars

C32_Witness ==
    /\ pc = "send"
    /\ cur # <<>>
    /\ cur[1].method = "tools/list"
    /\ Len(resp) = 1
    /\ resp[1].result.kind = "tools"
    /\ resp[1].result.tools = <<"test_tool", "echo">>
    /\ regError = "not found"

\* C33: on either transport, send_message on a transport that is not running
\* (never started, or stopped) raises the transport-not-started error and
\* delivers nothing: no line is written and no Future is completed; and
\* receive_message on a transport that is not running returns None and
\* takes no line from the input and no request from the queue.
C33_NotRunningTransport ==
    /\ [][\A m \in DirectResponses :
            /\ DirectStdioSend(m) /\ ~stdioRunning
               => apiCall'.error = "Transport not started" /\ stdout' = stdout
            /\ DirectHttpSend(m) /\ ~httpRunning
               => /\ apiCall'.error = "Transport not started"
                  /\ futures' = futures
                  /\ futState' = futState
                  /\ futResult' = futResult]_vars
    /\ [][/\ DirectStdioReceive /\ ~stdioRunning
             => /\ apiCall'.got = <<>>
                /\ apiCall'.error = ""
                /\ lineNo' = lineNo
                /\ eof' = eof
                /\ stdout' = stdout
          /\ DirectHttpReceive /\ ~httpRunning
             => /\ apiCall'.got = <<>>
                /\ apiCall'.error = ""
                /\ queue' = queue]_vars

C33_Witness ==
    /\ apiCall.tr = "http"
    /\ apiCall.op = "receive"
    /\ apiCall.got = <<>>
    /\ ~httpRunning
    /\ queue # <<>>
    /\ futState[1] = "pending"

\* C34: an initialize call with an identifier and well-formed parameters
\* succeeds whatever protocol version the client declares: the session is
\* initialized and the result carries the server's own protocol version,
\* capabilities and identity; with malformed parameters the call gets an
\* error response and the session state stays as it was, initialized or not.
C34_InitializeAnyVersion ==
    [][pc = "handle" /\ pc' = "send" /\ cur[1].jsonrpc = "2.0"
       /\ cur[1].id # NoId /\ cur[1].method = "initialize"
       => /\ cur[1].params.present /\ cur[1].params.init
             => /\ initialized'
                /\ resp' = <<Success(InitializeResult, cur[1].id)>>
                /\ resp'[1].result.content[1] = protocol_version
          /\ ~(cur[1].params.present /\ cur[1].params.init)
             => /\ initialized' = initialized
                /\ Len(resp') = 1
                /\ resp'[1].id = cur[1].id
                /\ resp'[1].result = NoResult
                /\ resp'[1].error.code = INTERNAL_ERROR]_vars

C34_Witness ==
    /\ pc = "send"
    /\ cur # <<>>
    /\ cur[1].method = "initialize"
    /\ cur[1].params.init
    /\ cur[1].params.version = "1.0"
    /\ ~wasInit
    /\ initialized
    /\ resp = <<Success(InitializeResult, cur[1].id)>>

\* C35: over the HTTP transport receive_message with an empty queue returns
\* None instead of blocking, so that whenever stop has cleared the server's
\* running flag the message loop comes to its while test and ends.
C35_StopEndsLoop ==
    /\ [][pc = "recv" /\ queue = <<>> /\ pc' # "recv"
          => pc' = "top" /\ cur' = <<>> /\ queue' = <<>>]_vars
    /\ (~running ~> pc = "off")

C35_Witness ==
    /\ pc = "recv"
    /\ queue = <<>>
    /\ ~running
    /\ serving
    /\ callPc[1] = "idle"

\* the required properties the arguments lack, and the keys the schema
\* does not allow
MissingRequired(keys, schema) ==
    {schema.required[i] : i \in 1..Len(schema.required)} \ keys
Unexpected(keys, schema) ==
    IF schema.additionalProperties THEN {} ELSE keys \ schema.properties

\* C36: validation fails exactly when a required property is absent from
\* the arguments or the schema disallows additional properties and some key
\* is not a listed property; it succeeds otherwise; when both hold, the
\* failure reported is the missing required property.
C36_ValidationExact ==
    valPc = "done"
    => /\ valOut = <<"ok">>
          <=> /\ MissingRequired(valKeys, valSchema) = {}
              /\ Unexpected(valKeys, valSchema) = {}
       /\ MissingRequired(valKeys, valSchema) # {}
          => /\ valOut[1] = "Missing required argument: "
             /\ valOut[2] \in MissingRequired(valKeys, valSchema)
       /\ /\ MissingRequired(valKeys, valSchema) = {}
          /\ Unexpected(valKeys, valSchema) # {}
          => valOut = <<"Unexpected arguments: ">>

C36_Witness ==
    /\ valPc = "done"
    /\ MissingRequired(valKeys, valSchema) # {}
    /\ Unexpected(valKeys, valSchema) # {}
    /\ valOut[1] = "Missing required argument: "

\* C37: over the HTTP transport the loop takes the queued requests one at a
\* time in the order they were queued: a request is taken only when the
\* loop has no request in hand, it is the oldest one queued, and the
\* responses reach the waiting calls in that order: no call's Future is
\* completed while the Future of a call queued earlier is still pending.
C37_SerialInQueueOrder ==
    /\ [](\A i, j \in 1..Len(queue) : i < j => queue[i].call < queue[j].call)
    /\ [][pc' = "handle" /\ pc # "handle"
          => /\ pc = "recv"
             /\ cur = <<>>
             /\ resp = <<>>
             /\ queue # <<>>
             /\ cur' = <<Head(queue).req>>
             /\ \A i \in 1..Len(queue') : queue'[i].call > curCall']_vars
    /\ [](\A a, b \in Calls :
            a < b /\ futState[b] = "done" => futState[a] # "pending")

\* C38: once an HTTP call has timed out, its request is not in the queue
\* any more and the loop never takes it: no handler runs for a call whose
\* caller was told that it failed.
C38_TimedOutNeverDispatched ==
    /\ [](\A c \in Calls :
            callOut[c].kind = "timeout"
            => \A i \in 1..Len(queue) : queue[i].call # c)
    /\ [][pc = "recv" /\ pc' = "handle"
          => callOut[curCall'].kind # "timeout"]_vars

\* the recorded timestamps that lie inside the window that ends at time t
InWindow(reqs, t) == {i \in 1..Len(reqs) : reqs[i] > t - time_window /\ reqs[i] <= t}

\* C39: the timestamp that acquire records for a call is the time at which
\* the call is admitted, after any wait, and when an acquire completes the
\* list holds at most max_requests timestamps inside the current window.
C39_RecordsAdmissionTime ==
    [][\A c \in Callers :
         acqPc[c] # "done" /\ acqPc'[c] = "done"
         => /\ requests' # <<>>
            /\ requests'[Len(requests')] = admitAt'[c]
            /\ admitAt'[c] = clock
            /\ Cardinality(InWindow(requests', clock)) <= max_requests]_vars

\* C40: whatever start and stop calls are made on one server, at most one
\* loop task is in receive_message or in a handler at any time, and no two
\* tasks are inside a handler together.
C40_AtMostOneLoop ==
    /\ Cardinality({l \in Tasks : taskPc[l] \in {"recv", "exec"}}) <= 1
    /\ Cardinality({l \in Tasks : taskPc[l] = "exec"}) <= 1

====
